---- MODULE Spec2Model ----
(***************************************************************************)
(* A model of WiseTestAI: the CLI entry point (run.py), the Test Executor  *)
(* (src/executor/test_executor.py), the shared Browser Manager             *)
(* (src/core/browser_manager.py), the step dispatch of the Step Executor   *)
(* (src/executor/step_executor.py), the Cache Manager                      *)
(* (src/core/cache_manager.py), the Configuration Manager                  *)
(* (src/core/config_manager.py) and the variable resolution of the API     *)
(* Executor (src/executor/api_executor.py).                                *)
(*                                                                         *)
(* Spec        one CLI run: main -> execute_suites -> _execute_scenario    *)
(* SpecCache   one writing and one loading Cache Manager on one directory  *)
(* SpecConfig  ConfigManager.load_config on bounded YAML documents         *)
(* SpecResolve APIExecutor._resolve_variables on bounded texts             *)
(* SpecApi     APIExecutor.execute_api and execute_file_upload             *)
(* SpecTable   StepExecutor._handle_verify_table                           *)
(* SpecParser  FeatureParser._parse_feature_file on bounded files          *)
(* SpecClassify FeatureParser._parse_step_text on written step texts       *)
(* SpecStep    StepExecutor.execute_step with _wait_after_action           *)
(* SpecApiSteps the API steps of one StepExecutor                          *)
(* SpecFinder  TestExecutor.__init__ and the AIElementFinder of a scenario *)
(***************************************************************************)
EXTENDS Integers, Sequences, FiniteSets, TLC

VARIABLES
    \* ---- run.py main and TestExecutor ----
    parallel,       \* --parallel, TestExecutor.parallel
    test_suites,    \* what FeatureParser.parse_features returned
    all_scenarios,  \* execute_suites' flattened (feature, scenario) list
    mainpc,         \* position of the main thread
    exitCode,       \* process exit code, None while running
    wired,          \* which of BrowserManager / TestExecutor / report main has made
    topError,       \* main's except clause ran
    results,        \* TestExecutor.results
    doneq,          \* the ended calls the main thread has yet to look at, in
                    \* the order they ended (as_completed)
    collected,      \* how many ended calls the main thread has looked at
    \* ---- one _execute_scenario call per item of all_scenarios ----
    pc,             \* position of the call
    page,           \* the local `page` handed to the StepExecutor
    nsteps,         \* len(scenario.steps)
    idx,            \* index of the next background / scenario step
    sr,             \* the local scenario_result
    calls,          \* the execute_step calls made so far, in order
    exc,            \* the exception the call ended with, None otherwise
    \* ---- the one BrowserManager ----
    bm,             \* its fields playwright, browser, context, page
    closed,         \* the closed pages and the stopped driver connections
    \* ---- CacheManager objects on one cache directory ----
    now,            \* datetime.now().timestamp(), in half seconds
    ttl,            \* CacheManager.ttl, in half seconds
    cm,             \* per manager: project_name and the cache dict
    files,          \* the <project_name>_cache.json files of the directory
    ncalls,         \* the CacheManager calls made so far
    saved,          \* the writer called save_cache / clear_cache since set_project
    lastOp,         \* the CacheManager call made last, with what it returned
    \* ---- ConfigManager ----
    base_file,      \* config.yaml
    env_file,       \* environments/<environment>.yaml
    environ,        \* os.environ
    config,         \* ConfigManager.config
    config_loaded,  \* load_config has returned
    \* ---- APIExecutor ----
    context,        \* APIExecutor.context
    auth_token,     \* APIExecutor.auth_token
    parts,          \* the pieces the text handed to _resolve_variables is made of
    resolved,       \* what _resolve_variables returned or raised
    \* ---- APIExecutor.execute_api / execute_file_upload ----
    test_results,   \* APITestReporter.test_results
    requests,       \* the HTTP requests issued so far
    napi,           \* the execute_api / execute_file_upload calls made so far
    lastApi,        \* the call made last: its definition and how it ended
    \* ---- StepExecutor._handle_verify_table ----
    data_table,     \* params['data_table']: the header row and the expected rows
    table,          \* the table of the page: found or not, header texts, rows
    verification,   \* what _handle_verify_table returned or raised
    \* ---- FeatureParser._parse_feature_file, parse_features ----
    lines,            \* the lines of the feature file read so far
    feature,          \* the Feature under construction
    current_scenario, \* the open block: none, the Background or a Scenario
    background,       \* the Background, when one was read
    tags,             \* the pending tags
    in_examples,      \* an Examples block is being read
    examples_data,    \* the rows of the pending examples table
    current_step,     \* the line of the Step read last
    parsed,           \* _parse_feature_file has returned
    features,         \* what parse_features returned
    \* ---- FeatureParser._parse_step_text (feature_parser.py) ----
    step_text,        \* the step text handed to _parse_step_text, with the form it was written in
    classified,       \* what _parse_step_text returned for it
    \* ---- StepExecutor.execute_step with _wait_after_action (step_executor.py) ----
    wait_after_actions,\* config.get('wait_after_actions') of the executor
    executed,         \* the steps executed so far: what went in and what execute_step returned
    \* ---- StepExecutor with its APIExecutor (step_executor.py, api_executor.py) ----
    api_executor,     \* StepExecutor.api_executor: built or None, its session, context and call log
    last_api_response,\* StepExecutor.last_api_response
    api_steps,        \* the API steps executed so far: what went in and what execute_step returned
    scenario_returned,\* the _execute_scenario call that built the StepExecutor has returned
    \* ---- TestExecutor.__init__ and the AIElementFinder of each scenario (test_executor.py, ai_element_finder.py) ----
    test_executor,    \* the TestExecutor: built or not, use_cache and the config it was handed
    finders,          \* the AIElementFinder objects built so far, each with its element_cache
    find_calls        \* the find_element calls made so far: what went in and where the result came from

execVars == <<parallel, test_suites, all_scenarios, mainpc, exitCode, wired,
              topError, results, doneq, collected, pc, page, nsteps, idx, sr,
              calls, exc, bm, closed>>

cacheVars == <<now, ttl, cm, files, ncalls, saved, lastOp>>

configVars == <<base_file, env_file, environ, config, config_loaded>>
resolveVars == <<context, auth_token, parts, resolved>>

apiVars == <<test_results, requests, napi, lastApi>>

tableVars == <<data_table, table, verification>>

parserVars == <<lines, feature, current_scenario, background, tags, in_examples, examples_data, current_step, parsed, features>>

classifyVars == <<step_text, classified>>

stepVars == <<wait_after_actions, executed>>

apiStepVars == <<api_executor, last_api_response, api_steps, scenario_returned>>

finderVars == <<test_executor, finders, find_calls>>

vars == <<execVars, cacheVars, configVars, resolveVars, apiVars, tableVars, parserVars,
          classifyVars, stepVars, apiStepVars, finderVars>>

None == "None"

libVars == <<cacheVars, configVars, resolveVars, apiVars, tableVars, parserVars,
             classifyVars, stepVars, apiStepVars, finderVars>>
notCacheVars == <<execVars, configVars, resolveVars, apiVars, tableVars, parserVars,
                  classifyVars, stepVars, apiStepVars, finderVars>>
notConfigVars == <<execVars, cacheVars, resolveVars, apiVars, tableVars, parserVars,
                   classifyVars, stepVars, apiStepVars, finderVars>>
notResolveVars == <<execVars, cacheVars, configVars, apiVars, tableVars, parserVars,
                    classifyVars, stepVars, apiStepVars, finderVars>>
notApiVars == <<execVars, cacheVars, configVars, tableVars, parserVars, classifyVars,
                stepVars, apiStepVars, finderVars>>
notTableVars == <<execVars, cacheVars, configVars, resolveVars, apiVars, parserVars,
                  classifyVars, stepVars, apiStepVars, finderVars>>
notParserVars == <<execVars, cacheVars, configVars, resolveVars, apiVars, tableVars,
                   classifyVars, stepVars, apiStepVars, finderVars>>
notClassifyVars == <<execVars, cacheVars, configVars, resolveVars, apiVars, tableVars,
                     parserVars, stepVars, apiStepVars, finderVars>>
notStepVars == <<execVars, cacheVars, configVars, resolveVars, apiVars, tableVars,
                 parserVars, classifyVars, apiStepVars, finderVars>>
notApiStepVars == <<execVars, cacheVars, configVars, resolveVars, apiVars, tableVars,
                    parserVars, classifyVars, stepVars, finderVars>>
notFinderVars == <<execVars, cacheVars, configVars, resolveVars, apiVars, tableVars,
                   parserVars, classifyVars, stepVars, apiStepVars>>

\* a dict without keys
EmptyDict == [k \in {} |-> None]

\* the cache directory is not used
NoCacheUse ==
    /\ now = 0
    /\ ttl = 0
    /\ cm = <<>>
    /\ files = EmptyDict
    /\ ncalls = 0
    /\ saved = FALSE
    /\ lastOp = <<>>

\* no configuration is loaded
NoConfigUse ==
    /\ base_file = <<>>
    /\ env_file = <<>>
    /\ environ = EmptyDict
    /\ config = EmptyDict
    /\ config_loaded = FALSE

\* no API text is resolved
NoResolveUse ==
    /\ context = EmptyDict
    /\ auth_token = <<>>
    /\ parts = <<>>
    /\ resolved = <<>>

\* no API is called
NoApiUse ==
    /\ test_results = <<>>
    /\ requests = 0
    /\ napi = 0
    /\ lastApi = <<>>

\* no table is verified
NoTableUse ==
    /\ data_table = <<>>
    /\ table = <<>>
    /\ verification = <<>>

\* no feature file is parsed
NoParserUse ==
    /\ lines = <<>>
    /\ feature = <<>>
    /\ current_scenario = <<>>
    /\ background = <<>>
    /\ tags = <<>>
    /\ in_examples = <<>>
    /\ examples_data = <<>>
    /\ current_step = <<>>
    /\ parsed = <<>>
    /\ features = <<>>

\* no step text is classified
NoClassifyUse ==
    /\ step_text = <<>>
    /\ classified = <<>>

\* no step is executed on its own
NoStepUse ==
    /\ wait_after_actions = <<>>
    /\ executed = <<>>

\* no API step is executed
NoApiStepUse ==
    /\ api_executor = <<>>
    /\ last_api_response = <<>>
    /\ api_steps = <<>>
    /\ scenario_returned = <<>>

\* no TestExecutor is built on its own
NoFinderUse ==
    /\ test_executor = <<>>
    /\ finders = <<>>
    /\ find_calls = <<>>

(***************************************************************************)
(* Bounds of the model.                                                    *)
(***************************************************************************)
MaxScenarios == 2    \* scenarios in one run, over all features
MaxSteps == 2        \* steps of one scenario
SuiteLengths == {0, 1, 2}       \* features handed to execute_suites
BackgroundLengths == {0, 2}     \* steps of a Background (0: no Background)
ParallelChoices == {1, 2}       \* values of --parallel

(***************************************************************************)
(* StepExecutor.execute_step.  The handlers are the _handle_<action>       *)
(* methods; `hres` is what the handler did (returned or raised) and `shot` *)
(* what the best-effort _take_screenshot returned (a path or None).        *)
(***************************************************************************)
Handlers == {"navigate", "click", "input", "select", "checkbox", "radio",
             "verify_text", "verify_element", "wait", "screenshot", "search",
             "verify_table", "unknown", "call_api"}

StepActions == {"click", "login"}     \* "login" has no _handle_login
HandlerOutcomes == {"returned", "raised"}
ShotOutcomes == {"error.png", None}

ExecuteStep(action, hres, shot) ==
    IF action \in Handlers
    THEN IF hres = "returned"
         THEN [status |-> "passed", action |-> action, error |-> None,
               screenshot |-> None]
         ELSE [status |-> "failed", action |-> action,
               error |-> <<"HandlerError", action>>, screenshot |-> shot]
    ELSE [status |-> "failed", action |-> action,
          error |-> <<"Unknown action", action>>, screenshot |-> None]

StepResults == {ExecuteStep(a, h, s) : a \in StepActions, h \in HandlerOutcomes,
                                       s \in ShotOutcomes}

(***************************************************************************)
(* Features as the parser hands them over: the number of Background steps  *)
(* (0: no Background) and the number of scenarios.  The steps themselves   *)
(* are read when the scenario runs.                                        *)
(***************************************************************************)
Features == [background : BackgroundLengths, scenarios : 0..MaxScenarios]

RECURSIVE CountScenarios(_)
CountScenarios(ts) ==
    IF ts = <<>> THEN 0 ELSE Head(ts).scenarios + CountScenarios(Tail(ts))

Suites == {ts \in UNION {[1..n -> Features] : n \in SuiteLengths} :
              CountScenarios(ts) <= MaxScenarios}

\* execute_suites lines 34-42
RECURSIVE Flatten(_, _)
Flatten(ts, f) ==
    IF f > Len(ts) THEN <<>>
    ELSE [s \in 1..ts[f].scenarios |-> [feature |-> f, scenario |-> s]]
         \o Flatten(ts, f + 1)

Items == DOMAIN all_scenarios
StepText(kind, i, k) == <<kind, all_scenarios[i].feature, all_scenarios[i].scenario, k>>
Background(i) == test_suites[all_scenarios[i].feature].background

Running(i) == pc[i] \notin {"queued", "returned", "raised"}
Finished(i) == pc[i] \in {"returned", "raised"}

(***************************************************************************)
(* BrowserManager objects.  start() creates a driver connection, a         *)
(* browser, a context and a page, named here by the item whose call made   *)
(* them; 0 stands for None.  A thread's start(), and its take_screenshot() *)
(* followed by stop(), are each taken as one step.                         *)
(***************************************************************************)
NewBrowserManager == [playwright |-> 0, browser |-> 0, context |-> 0, page |-> 0]
NothingClosed == [page |-> {}, playwright |-> {}]

\* lines 24, 39, 51, 52: the four fields after start() by item i
Started(i) == [playwright |-> i, browser |-> i, context |-> i, page |-> i]

IsClosed(kind, o) == o \in closed[kind]

\* stop(), lines 61-68, up to and without its stage k (k = 5: all of it):
\* page.close(), context.close(), browser.close(), playwright.stop(), each
\* on the object the field names now.  Closing a context, a browser or a
\* driver connection closes the page created from it; of the four kinds of
\* object, the pages and the driver connections are the ones followed.
StopStages == 1..4
Stopped(cl, k) ==
    LET gone(kind, stage) ==
            IF k > stage /\ bm[kind] # 0 THEN {bm[kind]} ELSE {}
    IN [page |-> cl.page \cup gone("page", 1) \cup gone("context", 2)
                    \cup gone("browser", 3) \cup gone("playwright", 4),
        playwright |-> cl.playwright \cup gone("playwright", 4)]

(***************************************************************************)
(* How a call of _execute_scenario ends.  Its locals end with it.          *)
(***************************************************************************)
NoResult == [status |-> None]

\* an exception leaves _execute_scenario: the future holds it
RaiseOut(i, e) ==
    /\ pc' = [pc EXCEPT ![i] = "raised"]
    /\ exc' = [exc EXCEPT ![i] = e]
    /\ doneq' = Append(doneq, i)
    /\ sr' = [sr EXCEPT ![i] = NoResult]
    /\ calls' = [calls EXCEPT ![i] = <<>>]
    /\ page' = [page EXCEPT ![i] = 0]
    /\ nsteps' = [nsteps EXCEPT ![i] = 0]
    /\ idx' = [idx EXCEPT ![i] = 1]

\* of a ScenarioResult, what the main thread reads
Summary(r) == [feature |-> r.feature, scenario |-> r.scenario, status |-> r.status]

\* line 134: return scenario_result; the future holds it
ReturnOut(i) ==
    /\ pc' = [pc EXCEPT ![i] = "returned"]
    /\ doneq' = Append(doneq, i)
    /\ sr' = [sr EXCEPT ![i] = Summary(@)]
    /\ calls' = [calls EXCEPT ![i] = <<>>]
    /\ page' = [page EXCEPT ![i] = 0]
    /\ nsteps' = [nsteps EXCEPT ![i] = 0]
    /\ idx' = [idx EXCEPT ![i] = 1]
    /\ exc' = exc

\* lines 78-85
NewScenarioResult(i) ==
    [feature |-> all_scenarios[i].feature, scenario |-> all_scenarios[i].scenario,
     status |-> "passed", steps |-> <<>>, error |-> None, screenshot |-> None]

mainVars == <<parallel, test_suites, all_scenarios, mainpc, exitCode, wired,
              topError, results, collected>>

(***************************************************************************)
(* ThreadPoolExecutor(max_workers=parallel): tasks start in submission     *)
(* order, at most `parallel` at a time, and still start while the pool is  *)
(* shut down with wait=True.  With parallel = 1 the main thread makes the  *)
(* calls itself, one after the other.                                      *)
(***************************************************************************)
CanStart(i) ==
    /\ pc[i] = "queued"
    /\ \A j \in 1..(i-1) : pc[j] # "queued"
    /\ IF parallel > 1
       THEN /\ mainpc \in {"running", "draining"}
            /\ Cardinality({j \in Items : Running(j)}) < parallel
       ELSE /\ mainpc = "running"
            /\ collected = i - 1

(***************************************************************************)
(* _execute_scenario, lines 69-121.  Any call into the browser may fail    *)
(* (EnvError, or StopError in stop()); a screenshot of a closed page fails *)
(* (TargetClosedError).                                                    *)
(***************************************************************************)
\* where the call goes after the try block
AfterTry == "finally"

\* a Background loop that goes on after a failed step
BackgroundNeverRaises(step_result) == FALSE

\* a scenario loop without the break of line 116
LoopEndsAfterLast(failed, last) == last

\* lines 97-98: a failed Background step raises
BackgroundRaises(step_result) == step_result.status = "failed"

\* lines 108-116: the loop ends at a failed step (break) or after the last
LoopEnds(failed, last) == failed \/ last

\* line 101: the loop over scenario.steps begins; n is their number
EnterScenarioLoop(i, n) ==
    /\ nsteps' = [nsteps EXCEPT ![i] = n]
    /\ idx' = [idx EXCEPT ![i] = 1]
    /\ pc' = [pc EXCEPT ![i] = IF n > 0 THEN "step" ELSE AfterTry]

\* line 70 and BrowserManager.start, lines 20-57; lines 73-85: the
\* AIElementFinder and the StepExecutor are constructed (the latter loads the
\* API catalogue, which may raise) and scenario_result is initialised;
\* line 89 looks for a Background
StartScenario(i) ==
    /\ CanStart(i)
    /\ \/ \* browser_type.launch raises
          /\ bm' = [bm EXCEPT !.playwright = i]
          /\ RaiseOut(i, "EnvError")
       \/ \* the StepExecutor cannot be constructed
          /\ bm' = Started(i)
          /\ RaiseOut(i, "EnvError")
       \/ /\ bm' = Started(i)
          /\ page' = [page EXCEPT ![i] = i]
          /\ sr' = [sr EXCEPT ![i] = NewScenarioResult(i)]
          /\ IF Background(i) > 0
             THEN /\ pc' = [pc EXCEPT ![i] = "background"]
                  /\ UNCHANGED <<nsteps, idx>>
             ELSE \E n \in 0..MaxSteps : EnterScenarioLoop(i, n)
          /\ UNCHANGED <<exc, doneq, calls>>
    /\ UNCHANGED <<mainVars, closed>>
    /\ UNCHANGED libVars

\* lines 89-98: one iteration of the Background loop; a failed step raises
\* (line 98) and lines 118-121 catch
BackgroundStep(i) ==
    /\ pc[i] = "background"
    /\ \E step_result \in StepResults :
         /\ calls' = [calls EXCEPT ![i] = Append(@, <<"background", idx[i],
                                                      step_result.status>>)]
         /\ IF BackgroundRaises(step_result)
            THEN /\ sr' = [sr EXCEPT ![i].status = "failed",
                                     ![i].error = <<"Background step failed",
                                                    StepText("background", i, idx[i])>>]
                 /\ pc' = [pc EXCEPT ![i] = AfterTry]
                 /\ UNCHANGED <<idx, nsteps>>
            ELSE /\ sr' = sr
                 /\ IF idx[i] = Background(i)
                    THEN \E n \in 0..MaxSteps : EnterScenarioLoop(i, n)
                    ELSE /\ idx' = [idx EXCEPT ![i] = @ + 1]
                         /\ UNCHANGED <<pc, nsteps>>
    /\ UNCHANGED <<mainVars, doneq, page, exc, bm, closed>>
    /\ UNCHANGED libVars

\* lines 101-116: one iteration of the scenario loop
ScenarioStep(i) ==
    /\ pc[i] = "step"
    /\ \E r \in StepResults :
         LET step_result == [text |-> StepText("step", i, idx[i])] @@ r
             failed == step_result.status = "failed"
             last == idx[i] = nsteps[i]
         IN /\ calls' = [calls EXCEPT ![i] = Append(@, <<"step", idx[i],
                                                         step_result.status>>)]
            /\ sr' = [sr EXCEPT ![i].steps = Append(@, step_result),
                                ![i].status = IF failed THEN "failed" ELSE @,
                                ![i].error = IF failed THEN step_result.error ELSE @]
            /\ idx' = [idx EXCEPT ![i] = IF LoopEnds(failed, last) THEN @ ELSE @ + 1]
            /\ pc' = [pc EXCEPT ![i] = IF LoopEnds(failed, last) THEN AfterTry
                                                                ELSE "step"]
    /\ UNCHANGED <<mainVars, doneq, page, nsteps, exc, bm, closed>>
    /\ UNCHANGED libVars

(***************************************************************************)
(* _execute_scenario, lines 123-134: the finally block and the return.     *)
(***************************************************************************)
\* lines 125-129 and BrowserManager.take_screenshot, lines 80-88: of the page
\* the shared field names now.  Line 132 and BrowserManager.stop, lines
\* 59-68: it closes what the shared fields name now; stage k may raise,
\* which skips the stages after it.
Finally(i) ==
    /\ pc[i] = "finally"
    /\ \/ /\ sr[i].status = "failed"
          /\ RaiseOut(i, IF IsClosed("page", bm.page)
                         THEN "TargetClosedError" ELSE "EnvError")
          /\ closed' = closed
       \/ /\ sr[i].status = "failed" => ~IsClosed("page", bm.page)
          /\ \/ /\ closed' = Stopped(closed, 5)
                /\ ReturnOut(i)
             \/ \E k \in StopStages :
                  /\ closed' = Stopped(closed, k)
                  /\ RaiseOut(i, "StopError")
    /\ UNCHANGED <<mainVars, bm>>
    /\ UNCHANGED libVars

(***************************************************************************)
(* run.py main and TestExecutor.execute_suites.                            *)
(***************************************************************************)
scenarioVars == <<pc, page, nsteps, idx, sr, calls, exc, bm, closed>>

Exit(code, error) ==
    /\ mainpc' = "exited"
    /\ exitCode' = code
    /\ topError' = error

\* run.py lines 58-60, 63-64: loading the configuration or parsing the
\* features raises; lines 110-112 catch it
MainLoadFails ==
    /\ mainpc = "cli"
    /\ Exit(1, TRUE)
    /\ UNCHANGED <<parallel, test_suites, all_scenarios, wired, results,
                   collected, doneq, scenarioVars>>
    /\ UNCHANGED libVars

\* run.py lines 66-68: nothing to run; click ends the process with code 0
MainNothingToRun ==
    /\ mainpc = "cli"
    /\ test_suites = <<>>
    /\ Exit(0, FALSE)
    /\ UNCHANGED <<parallel, test_suites, all_scenarios, wired, results,
                   collected, doneq, scenarioVars>>
    /\ UNCHANGED libVars

\* run.py lines 70-93, TestExecutor.__init__ and execute_suites lines 34-52
MainExecuteSuites ==
    /\ mainpc = "cli"
    /\ test_suites # <<>>
    /\ wired' = [wired EXCEPT !.browser_manager = TRUE, !.executor = TRUE]
    /\ bm' = NewBrowserManager
    /\ all_scenarios' = Flatten(test_suites, 1)
    /\ LET items == DOMAIN all_scenarios'
       IN /\ pc' = [i \in items |-> "queued"]
          /\ page' = [i \in items |-> 0]
          /\ nsteps' = [i \in items |-> 0]
          /\ idx' = [i \in items |-> 1]
          /\ sr' = [i \in items |-> NoResult]
          /\ calls' = [i \in items |-> <<>>]
          /\ exc' = [i \in items |-> None]
    /\ mainpc' = "running"
    /\ UNCHANGED <<parallel, test_suites, exitCode, topError, results,
                   collected, doneq, closed>>
    /\ UNCHANGED libVars

\* execute_suites lines 54-56 (future.result() of the next completed future)
\* and lines 60-61 (the call made by the main thread itself has ended)
Collect ==
    /\ mainpc = "running"
    /\ doneq # <<>>
    /\ LET i == Head(doneq)
       IN /\ IF pc[i] = "returned"
             THEN /\ results' = Append(results, sr[i])
                  /\ mainpc' = mainpc
             ELSE \* the exception leaves the loop; the pool is shut down, waiting
                  /\ results' = results
                  /\ mainpc' = "draining"
          /\ sr' = [sr EXCEPT ![i] = NoResult]
    /\ doneq' = Tail(doneq)
    /\ collected' = collected + 1
    /\ UNCHANGED <<parallel, test_suites, all_scenarios, exitCode, wired,
                   topError, pc, page, nsteps, idx, calls, exc, bm, closed>>
    /\ UNCHANGED libVars

\* the exception leaves execute_suites once no worker is left running;
\* run.py lines 110-112 catch it
MainCatch ==
    /\ mainpc = "draining"
    /\ IF parallel > 1 THEN \A i \in Items : Finished(i)
                       ELSE \A i \in Items : ~Running(i)
    /\ Exit(1, TRUE)
    /\ UNCHANGED <<parallel, test_suites, all_scenarios, wired, results,
                   collected, doneq, scenarioVars>>
    /\ UNCHANGED libVars

\* an exit code that ignores the results
ExitCodeZero(res) == 0

\* run.py lines 102-108
ExitCodeFor(res) ==
    IF Cardinality({k \in DOMAIN res : res[k].status = "failed"}) > 0 THEN 1 ELSE 0

\* execute_suites line 63, then run.py lines 95-108; the HTML reporter may
\* raise, which lines 110-112 catch
MainReport ==
    /\ mainpc = "running"
    /\ collected = Len(all_scenarios)
    /\ \E report \in {"html", "json"}, rendered \in BOOLEAN :
         IF report = "html"
         THEN IF rendered
              THEN /\ wired' = [wired EXCEPT !.report = TRUE]
                   /\ Exit(ExitCodeFor(results), FALSE)
              ELSE /\ wired' = wired
                   /\ Exit(1, TRUE)
         ELSE /\ rendered
              /\ wired' = wired
              /\ Exit(ExitCodeFor(results), FALSE)
    /\ UNCHANGED <<parallel, test_suites, all_scenarios, results, collected,
                   doneq, scenarioVars>>
    /\ UNCHANGED libVars

\* no run of the CLI
NoRun ==
    /\ parallel = 1
    /\ test_suites = <<>>
    /\ all_scenarios = <<>>
    /\ mainpc = "cli"
    /\ exitCode = None
    /\ wired = [browser_manager |-> FALSE, executor |-> FALSE, report |-> FALSE]
    /\ topError = FALSE
    /\ results = <<>>
    /\ doneq = <<>>
    /\ collected = 0
    /\ pc = <<>>
    /\ page = <<>>
    /\ nsteps = <<>>
    /\ idx = <<>>
    /\ sr = <<>>
    /\ calls = <<>>
    /\ exc = <<>>
    /\ bm = NewBrowserManager
    /\ closed = NothingClosed

Init ==
    /\ NoCacheUse
    /\ NoParserUse
    /\ NoClassifyUse
    /\ NoStepUse
    /\ NoApiStepUse
    /\ NoFinderUse
    /\ NoApiUse
    /\ NoTableUse
    /\ NoConfigUse
    /\ NoResolveUse
    /\ parallel \in ParallelChoices
    /\ test_suites \in Suites
    /\ all_scenarios = <<>>
    /\ mainpc = "cli"
    /\ exitCode = None
    /\ wired = [browser_manager |-> FALSE, executor |-> FALSE, report |-> FALSE]
    /\ topError = FALSE
    /\ results = <<>>
    /\ doneq = <<>>
    /\ collected = 0
    /\ pc = <<>>
    /\ page = <<>>
    /\ nsteps = <<>>
    /\ idx = <<>>
    /\ sr = <<>>
    /\ calls = <<>>
    /\ exc = <<>>
    /\ bm = NewBrowserManager
    /\ closed = NothingClosed

Next ==
    \/ MainLoadFails
    \/ MainNothingToRun
    \/ MainExecuteSuites
    \/ Collect
    \/ MainCatch
    \/ MainReport
    \/ \E i \in Items : StartScenario(i)
    \/ \E i \in Items : BackgroundStep(i)
    \/ \E i \in Items : ScenarioStep(i)
    \/ \E i \in Items : Finally(i)

Spec == Init /\ [][Next]_vars

(***************************************************************************)
(* Properties of one CLI run (Spec).                                       *)
(***************************************************************************)
InTry(i) == pc[i] \in {"background", "step", "finally"}
PairOf(i) == [feature |-> all_scenarios[i].feature,
              scenario |-> all_scenarios[i].scenario]
ResultsFor(i) == {k \in DOMAIN results :
                    /\ results[k].feature = PairOf(i).feature
                    /\ results[k].scenario = PairOf(i).scenario}
StepCalls(i) == SelectSeq(calls[i], LAMBDA c : c[1] = "step")
BackgroundCalls(i) == SelectSeq(calls[i], LAMBDA c : c[1] = "background")

\* C1: the steps of a scenario are executed in source order and execution
\* stops at the first failed step: the recorded StepResults are those of
\* steps 1..k in order, only the last of them can be failed, and when it is
\* no further step is executed, the scenario status is 'failed' and its
\* error is that step's error; without a failed step all n steps run.
C1_StepsInOrderStopAtFirstFailure ==
    \A i \in Items : InTry(i) =>
        LET st == sr[i].steps
            k == Len(st)
        IN /\ k <= nsteps[i]
           /\ StepCalls(i) = [j \in 1..k |-> <<"step", j, st[j].status>>]
           /\ \A j \in 1..k : st[j].text = StepText("step", i, j)
           /\ \A j \in 1..(k-1) : st[j].status = "passed"
           /\ (k > 0 /\ st[k].status = "failed") =>
                 /\ pc[i] = "finally"
                 /\ sr[i].status = "failed"
                 /\ sr[i].error = st[k].error
           /\ pc[i] = "finally" =>
                 \/ k = nsteps[i] /\ (k > 0 => st[k].status = "passed")
                 \/ k > 0 /\ st[k].status = "failed"

\* a scenario of two steps whose first step failed has ended its try block
C1_Witness ==
    \E i \in Items : /\ pc[i] = "finally"
                      /\ nsteps[i] = 2
                      /\ Len(sr[i].steps) = 1
                      /\ sr[i].steps[1].status = "failed"
                      /\ sr[i].status = "failed"

\* C2: with parallel > 1, once the run is over and nothing but the workers'
\* own interleaving went wrong, TestExecutor.results holds exactly one
\* ScenarioResult for each submitted (feature, scenario) pair.
C2_OneResultPerPairInParallel ==
    ( /\ parallel > 1
      /\ mainpc = "exited"
      /\ wired.executor
      /\ \A i \in Items : exc[i] \in {None, "TargetClosedError"} )
    => /\ Len(results) = Len(all_scenarios)
       /\ \A i \in Items : Cardinality(ResultsFor(i)) = 1

\* C3: in sequential mode, once the run is over every scenario handed to
\* execute_suites has been executed and has a result record.
C3_FailureNeverAbortsSuite ==
    (parallel = 1 /\ mainpc = "exited" /\ wired.executor)
    => \A i \in Items : pc[i] # "queued" /\ ResultsFor(i) # {}

\* C4: a call of _execute_scenario that has started its browser, and in
\* which stop() itself does not fail, ends only after the driver connection
\* it started has been stopped.
C4_BrowserStoppedBeforeCallEnds ==
    [][\A i \in Items :
         ( /\ i \in DOMAIN pc'
           /\ pc[i] = "finally"
           /\ pc'[i] \in {"returned", "raised"}
           /\ exc'[i] # "StopError" )
         => i \in closed'.playwright]_vars

\* C5: the Background steps are executed in order before the first scenario
\* step, which runs only after all of them passed; after a failed Background
\* step no further Background step and no scenario step is executed, and the
\* scenario result is 'failed' with an error naming that Background step.
C5_BackgroundFirstAndStopsOnFailure ==
    \A i \in Items : InTry(i) =>
        LET c == calls[i]
            b == Len(BackgroundCalls(i))
        IN /\ b <= Background(i)
           /\ \A j \in 1..Len(c) :
                 IF j <= b THEN c[j][1] = "background" /\ c[j][2] = j
                           ELSE c[j][1] = "step"
           /\ (Len(c) > b \/ pc[i] = "step") =>
                 b = Background(i) /\ \A j \in 1..b : c[j][3] = "passed"
           /\ \A j \in 1..b : c[j][3] = "failed" =>
                 /\ j = Len(c)
                 /\ pc[i] = "finally"
                 /\ sr[i].steps = <<>>
                 /\ sr[i].status = "failed"
                 /\ sr[i].error = <<"Background step failed",
                                    StepText("background", i, j)>>
           /\ (pc[i] = "finally" /\ \A j \in 1..b : c[j][3] = "passed") =>
                 b = Background(i)

\* the first of two Background steps failed and the try block has ended
C5_Witness ==
    \E i \in Items : /\ pc[i] = "finally"
                      /\ Background(i) = 2
                      /\ calls[i] = << <<"background", 1, "failed">> >>

\* C6: the process exits with 1 iff a ScenarioResult is 'failed' or main's
\* except clause ran, and with 0 otherwise; with no feature to run no
\* BrowserManager, TestExecutor or report is made, and the exit code is 0
\* unless loading failed.
C6_ExitCode ==
    mainpc = "exited" =>
        /\ exitCode \in {0, 1}
        /\ exitCode = 1 <=>
              \/ \E k \in DOMAIN results : results[k].status = "failed"
              \/ topError
        /\ test_suites = <<>> =>
              /\ wired = [browser_manager |-> FALSE, executor |-> FALSE,
                          report |-> FALSE]
              /\ ~topError => exitCode = 0

\* a run that ended without a top-level error and with a failed scenario
C6_Witness ==
    /\ mainpc = "exited"
    /\ ~topError
    /\ exitCode = 1
    /\ \E k \in DOMAIN results : results[k].status = "failed"

(***************************************************************************)
(* CacheManager (src/core/cache_manager.py).  Two managers work on one     *)
(* cache directory: the writer makes every call of the class, the loader   *)
(* loads projects and reads.  Time is counted in half seconds.             *)
(***************************************************************************)
MaxTime == 4                    \* the clock stops here
MaxCalls == 4                   \* CacheManager calls in one behaviour
TTLs == {0, 2}                  \* ttl of 0 s and of 1 s
Keys == {"k1", "k2"}
Managers == {"writer", "loader"}

\* project names as texts over the characters "A", "a", " ", "_", "b"
ProjectNames == {<<>>, <<"A", " ">>, <<"a", "_">>, <<"b">>}

\* what save_cache is handed as value: a dict whose 'position' is a list, a
\* tuple, or an object json cannot encode
PyValues == {[position |-> "list"], [position |-> "tuple"],
             [position |-> "object"]}
NoValue == [position |-> None]
Absent == [found |-> FALSE, value |-> NoValue]

\* line 22: project_name.lower().replace(' ', '_')
Lower(c) == IF c = "A" THEN "a" ELSE c
Normalise(project_name) ==
    [n \in DOMAIN project_name |->
        IF Lower(project_name[n]) = " " THEN "_" ELSE Lower(project_name[n])]

\* json.dump and json.load: lists and tuples are written as arrays, arrays
\* are read as lists; an object json cannot encode makes dump raise
JsonEncodable(value) == value.position # "object"
JsonDumpValue(value) ==
    [position |-> IF value.position \in {"list", "tuple"} THEN "array"
                                                           ELSE value.position]
JsonLoadValue(doc) ==
    [position |-> IF doc.position = "array" THEN "list" ELSE doc.position]

\* a file whose writing was cut short by an exception
Truncated == [ok |-> FALSE, doc |-> EmptyDict]

\* lines 47-48: open(cache_file, 'w') empties the file, json.dump writes it
JsonDump(cache) ==
    IF \A k \in DOMAIN cache : JsonEncodable(cache[k].value)
    THEN [ok |-> TRUE,
          doc |-> [k \in DOMAIN cache |->
                     [value |-> JsonDumpValue(cache[k].value),
                      timestamp |-> cache[k].timestamp]]]
    ELSE Truncated

\* line 34: json.load of a well-formed file
JsonLoad(doc) ==
    [k \in DOMAIN doc |-> [value |-> JsonLoadValue(doc[k].value),
                           timestamp |-> doc[k].timestamp]]

\* line 18: project_name before set_project
NoProject == <<"None">>

\* lines 27 and 42: not self.project_name
Falsy(project_name) == project_name \in {NoProject, <<>>}

\* _save_cache, lines 40-50: the directory after it
SaveCacheFile(project_name, cache, fs) ==
    IF Falsy(project_name) THEN fs
    ELSE [f \in DOMAIN fs \cup {project_name} |->
             IF f = project_name THEN JsonDump(cache) ELSE fs[f]]

\* an age check that turns away an entry exactly ttl old
NotOlderThan(age, limit) == age < limit

\* lines 58 and 71: the age of an entry against the ttl
Expired(entry, t) == t - entry.timestamp > ttl
NotExpired(age, limit) == age <= limit

\* _clean_expired, lines 52-65: the cache and the directory after it
CleanExpired(project_name, cache, fs, t) ==
    LET expired_keys == {k \in DOMAIN cache : Expired(cache[k], t)}
        kept == [k \in DOMAIN cache \ expired_keys |-> cache[k]]
    IN [cache |-> kept,
        files |-> IF expired_keys # {} THEN SaveCacheFile(project_name, kept, fs)
                                       ELSE fs]

\* _load_cache, lines 25-38: the cache and the directory after it
LoadCache(project_name, cache, fs, t) ==
    IF Falsy(project_name) THEN [cache |-> cache, files |-> fs]
    ELSE IF project_name \notin DOMAIN fs THEN [cache |-> cache, files |-> fs]
    ELSE IF ~fs[project_name].ok THEN [cache |-> EmptyDict, files |-> fs]
    ELSE CleanExpired(project_name, JsonLoad(fs[project_name].doc), fs, t)

\* get, lines 67-73
GetValue(cache, key, t) ==
    IF key \in DOMAIN cache
    THEN IF NotExpired(t - cache[key].timestamp, ttl)
         THEN [found |-> TRUE, value |-> cache[key].value]
         ELSE Absent
    ELSE Absent

Op(name, m, key, ret) == [op |-> name, m |-> m, key |-> key, ret |-> ret]

\* one more call is made
Call ==
    /\ ncalls < MaxCalls
    /\ ncalls' = ncalls + 1

\* set_project, lines 20-23
SetProject(m, project_name) ==
    LET loaded == LoadCache(Normalise(project_name), cm[m].cache, files, now)
    IN /\ Call
       /\ cm' = [cm EXCEPT ![m] = [project_name |-> Normalise(project_name),
                                   cache |-> loaded.cache]]
       /\ files' = loaded.files
       /\ saved' = IF m = "writer" THEN FALSE ELSE saved
       /\ lastOp' = Op("set_project", m, "", Absent)
       /\ UNCHANGED <<now, ttl, notCacheVars>>

\* save_cache, lines 75-81
SaveCache(m, key, value) ==
    LET entry == [value |-> value, timestamp |-> now]
        cache == [k \in DOMAIN cm[m].cache \cup {key} |->
                     IF k = key THEN entry ELSE cm[m].cache[k]]
    IN /\ Call
       /\ cm' = [cm EXCEPT ![m].cache = cache]
       /\ files' = SaveCacheFile(cm[m].project_name, cache, files)
       /\ saved' = TRUE
       /\ lastOp' = Op("save_cache", m, key, Absent)
       /\ UNCHANGED <<now, ttl, notCacheVars>>

\* get, lines 67-73
Get(m, key) ==
    /\ Call
    /\ lastOp' = Op("get", m, key, GetValue(cm[m].cache, key, now))
    /\ UNCHANGED <<now, ttl, cm, files, saved, notCacheVars>>

\* clear_cache, lines 83-86
ClearCache(m) ==
    /\ Call
    /\ cm' = [cm EXCEPT ![m].cache = EmptyDict]
    /\ files' = SaveCacheFile(cm[m].project_name, EmptyDict, files)
    /\ saved' = TRUE
    /\ lastOp' = Op("clear_cache", m, "", Absent)
    /\ UNCHANGED <<now, ttl, notCacheVars>>

\* half a second passes
Tick ==
    /\ now < MaxTime
    /\ now' = now + 1
    /\ lastOp' = Op("tick", "", "", Absent)
    /\ UNCHANGED <<ttl, cm, files, ncalls, saved, notCacheVars>>

\* __init__, lines 13-18, of both managers, on an empty directory
InitCache ==
    /\ NoRun
    /\ NoParserUse
    /\ NoClassifyUse
    /\ NoStepUse
    /\ NoApiStepUse
    /\ NoFinderUse
    /\ NoApiUse
    /\ NoTableUse
    /\ NoConfigUse
    /\ NoResolveUse
    /\ now = 0
    /\ ttl \in TTLs
    /\ cm = [m \in Managers |-> [project_name |-> NoProject, cache |-> EmptyDict]]
    /\ files = EmptyDict
    /\ ncalls = 0
    /\ saved = FALSE
    /\ lastOp = Op("init", "", "", Absent)

NextCache ==
    \/ Tick
    \/ \E m \in Managers, project_name \in ProjectNames : SetProject(m, project_name)
    \/ \E key \in Keys, value \in PyValues : SaveCache("writer", key, value)
    \/ \E m \in Managers, key \in Keys : Get(m, key)
    \/ ClearCache("writer")

SpecCache == InitCache /\ [][NextCache]_vars

(***************************************************************************)
(* Properties of the CacheManager (SpecCache).                             *)
(***************************************************************************)
\* C7: get(key) returns the stored value iff the cache holds an entry for
\* key whose age, now minus its timestamp, is at most the ttl, and nothing
\* otherwise; with a ttl of one second an entry is returned half a second
\* after its timestamp and not returned two seconds after it.
C7_GetReturnsFreshEntriesOnly ==
    lastOp.op = "get" =>
        LET cache == cm[lastOp.m].cache
            key == lastOp.key
            exists == key \in DOMAIN cache
        IN /\ lastOp.ret.found <=> (exists /\ now - cache[key].timestamp <= ttl)
           /\ lastOp.ret.found => lastOp.ret.value = cache[key].value
           /\ (exists /\ ttl = 2 /\ now - cache[key].timestamp = 1) =>
                 lastOp.ret = [found |-> TRUE, value |-> cache[key].value]
           /\ (exists /\ ttl = 2 /\ now - cache[key].timestamp = 4) =>
                 lastOp.ret = Absent

\* with a ttl of one second, get has returned an entry half a second old
C7_Witness ==
    /\ lastOp.op = "get"
    /\ ttl = 2
    /\ lastOp.key \in DOMAIN cm[lastOp.m].cache
    /\ now - cm[lastOp.m].cache[lastOp.key].timestamp = 1
    /\ lastOp.ret.found

\* C8: when the loader has just loaded the project the writer has set and
\* saved to, it holds exactly the writer's entries that are not older than
\* the ttl, with the writer's values.
C8_PersistenceRoundTrip ==
    ( /\ lastOp.op = "set_project"
      /\ lastOp.m = "loader"
      /\ saved
      /\ cm["writer"].project_name # NoProject
      /\ cm["writer"].project_name = cm["loader"].project_name )
    => LET written == cm["writer"].cache
           loaded == cm["loader"].cache
           live == {k \in DOMAIN written : now - written[k].timestamp <= ttl}
       IN /\ DOMAIN loaded = live
          /\ \A k \in live : loaded[k].value = written[k].value

(***************************************************************************)
(* ConfigManager (src/core/config_manager.py).  A YAML value is a dict, an *)
(* int or a str; texts are sequences of characters.                        *)
(***************************************************************************)
Dict(items) == [kind |-> "dict", text |-> <<>>, items |-> items]
IntValue(text) == [kind |-> "int", text |-> text, items |-> EmptyDict]
StrValue(text) == [kind |-> "str", text |-> text, items |-> EmptyDict]
IsDict(value) == value.kind = "dict"

\* d[key] = value
Put(d, key, value) ==
    [k \in DOMAIN d \cup {key} |-> IF k = key THEN value ELSE d[k]]
\* d.pop(key)
Pop(d, key) == [k \in DOMAIN d \ {key} |-> d[k]]

\* the dicts with keys among `keys` and values among `values`
DictsOver(keys, values) == UNION {[ks -> values] : ks \in SUBSET keys}

\* config.yaml: one section "a", two levels of dicts below it
BaseLeaves == {IntValue(<<"1">>), IntValue(<<"2">>), StrValue(<<"$", "{", "V", "}">>)}
BaseInner == {Dict(d) : d \in DictsOver({"p"}, {IntValue(<<"1">>)})}
BaseSections == {Dict(d) : d \in DictsOver({"x", "y"}, BaseLeaves \cup BaseInner)}
BaseDocs == DictsOver({"a"}, {IntValue(<<"1">>)} \cup BaseSections)

\* the 'overrides' section of the environment document
OverrideInner == {Dict(d) : d \in DictsOver({"p"}, {IntValue(<<"9">>)})}
OverrideSections ==
    {Dict(d) : d \in DictsOver({"x", "y"}, {IntValue(<<"9">>)} \cup OverrideInner)}
OverrideDocs == DictsOver({"a"}, {IntValue(<<"9">>)} \cup OverrideSections)

\* the rest of the environment document
RestInner == {Dict(d) : d \in DictsOver({"p"}, {IntValue(<<"3">>)})}
RestSections ==
    {Dict(d) : d \in DictsOver({"y", "z"}, {IntValue(<<"3">>)} \cup RestInner)}
RestDocs == DictsOver({"a"}, {IntValue(<<"3">>)} \cup RestSections)

EnvDocs == RestDocs \cup {Put(r, "overrides", Dict(o)) : r \in RestDocs, o \in OverrideDocs}

Missing == [exists |-> FALSE, doc |-> EmptyDict]
File(doc) == [exists |-> TRUE, doc |-> doc]

Environs == {EmptyDict, [name \in {<<"V">>} |-> <<"v">>]}

\* a merge that copies the override's values over the base's, at one level
ShallowMergeConfigs(base, override) ==
    [k \in DOMAIN base \cup DOMAIN override |->
        IF k \in DOMAIN override THEN override[k] ELSE base[k]]

\* _merge_configs, lines 49-59; MergeItems is the loop of lines 53-57 over
\* the override's keys still to visit
RECURSIVE MergeConfigs(_, _)
RECURSIVE MergeItems(_, _, _)
MergeItems(result, override, keys) ==
    IF keys = {} THEN result
    ELSE LET key == CHOOSE k \in keys : TRUE
             value == override[key]
         IN MergeItems(
              IF key \in DOMAIN result /\ IsDict(result[key]) /\ IsDict(value)
              THEN Put(result, key, Dict(MergeConfigs(result[key].items, value.items)))
              ELSE Put(result, key, value),
              override, keys \ {key})
MergeConfigs(base, override) == MergeItems(base, override, DOMAIN override)

\* lines 67-68: base[section][key] = value for every item of values
RECURSIVE UpdateItems(_, _, _)
UpdateItems(section, values, keys) ==
    IF keys = {} THEN section
    ELSE LET key == CHOOSE k \in keys : TRUE
         IN UpdateItems(Put(section, key, values[key]), values, keys \ {key})

\* _apply_overrides, lines 61-74: base after the loop over the sections
\* still to visit
RECURSIVE ApplySections(_, _, _)
ApplySections(base, overrides, sections) ==
    IF sections = {} THEN base
    ELSE LET section == CHOOSE k \in sections : TRUE
             values == overrides[section]
         IN ApplySections(
              IF section \in DOMAIN base /\ IsDict(values)
              THEN IF IsDict(base[section])
                   THEN Put(base, section,
                            Dict(UpdateItems(base[section].items, values.items,
                                             DOMAIN values.items)))
                   ELSE Put(base, section, values)
              ELSE Put(base, section, values),
              overrides, sections \ {section})
ApplyOverrides(base, overrides) == ApplySections(base, overrides, DOMAIN overrides)

\* line 82: config.startswith('${') and config.endswith('}')
IsEnvRef(text) ==
    /\ Len(text) >= 3
    /\ text[1] = "$"
    /\ text[2] = "{"
    /\ text[Len(text)] = "}"

\* _process_env_vars, lines 76-86
RECURSIVE ProcessEnvVars(_, _)
ProcessEnvVars(value, env) ==
    IF IsDict(value)
    THEN Dict([k \in DOMAIN value.items |-> ProcessEnvVars(value.items[k], env)])
    ELSE IF value.kind = "str" /\ IsEnvRef(value.text)
    THEN LET var_name == SubSeq(value.text, 3, Len(value.text) - 1)
         IN IF var_name \in DOMAIN env THEN StrValue(env[var_name]) ELSE value
    ELSE value

\* load_config, lines 19-47
LoadConfig ==
    /\ ~config_loaded
    /\ LET main == IF base_file.exists THEN base_file.doc ELSE config
           merged ==
             IF env_file.exists
             THEN LET env_config == env_file.doc
                  IN IF "overrides" \in DOMAIN env_config
                     THEN MergeConfigs(
                            ApplyOverrides(main, env_config["overrides"].items),
                            Pop(env_config, "overrides"))
                     ELSE MergeConfigs(main, env_config)
             ELSE main
       IN config' = ProcessEnvVars(Dict(merged), environ).items
    /\ config_loaded' = TRUE
    /\ UNCHANGED <<base_file, env_file, environ, notConfigVars>>

\* __init__, lines 14-17, with the files and the environment it will find
InitConfig ==
    /\ NoRun
    /\ NoParserUse
    /\ NoClassifyUse
    /\ NoStepUse
    /\ NoApiStepUse
    /\ NoFinderUse
    /\ NoApiUse
    /\ NoTableUse
    /\ NoCacheUse
    /\ NoResolveUse
    /\ base_file \in {Missing} \cup {File(d) : d \in BaseDocs}
    /\ env_file \in {Missing} \cup {File(d) : d \in EnvDocs}
    /\ environ \in Environs
    /\ config = EmptyDict
    /\ config_loaded = FALSE

NextConfig == LoadConfig

SpecConfig == InitConfig /\ [][NextConfig]_vars

(***************************************************************************)
(* Properties of ConfigManager.load_config (SpecConfig).                   *)
(***************************************************************************)
\* after the overrides: a section both sides hold as dicts gets the
\* override's keys, any other section of the overrides is taken as it is
AfterOverrides(base, overrides) ==
    [s \in DOMAIN base \cup DOMAIN overrides |->
        IF s \notin DOMAIN overrides THEN base[s]
        ELSE IF s \in DOMAIN base /\ IsDict(base[s]) /\ IsDict(overrides[s])
        THEN Dict([k \in DOMAIN base[s].items \cup DOMAIN overrides[s].items |->
                      IF k \in DOMAIN overrides[s].items
                      THEN overrides[s].items[k] ELSE base[s].items[k]])
        ELSE overrides[s]]

\* the right-biased deep merge, key by key
RECURSIVE RightBiased(_, _)
RightBiased(base, override) ==
    [k \in DOMAIN base \cup DOMAIN override |->
        IF k \notin DOMAIN override THEN base[k]
        ELSE IF k \in DOMAIN base /\ IsDict(base[k]) /\ IsDict(override[k])
        THEN Dict(RightBiased(base[k].items, override[k].items))
        ELSE override[k]]

BaseOf(file) == IF file.exists THEN file.doc ELSE EmptyDict
OverridesOf(file) ==
    IF file.exists /\ "overrides" \in DOMAIN file.doc
    THEN file.doc["overrides"].items ELSE EmptyDict
RestOf(file) ==
    IF file.exists THEN [k \in DOMAIN file.doc \ {"overrides"} |-> file.doc[k]]
                   ELSE EmptyDict

One == IntValue(<<"1">>)
Two == IntValue(<<"2">>)
Three == IntValue(<<"3">>)
Nine == IntValue(<<"9">>)
ExampleBase == [s \in {"a"} |-> Dict([k \in {"x", "y"} |-> IF k = "x" THEN One ELSE Two])]
ExampleOverrides == [s \in {"a"} |-> Dict([k \in {"y"} |-> Nine])]
ExampleRest == [s \in {"a"} |-> Dict([k \in {"z"} |-> Three])]

\* C9: the loaded configuration is the base document with the overrides
\* applied section by section (shallow merge where both sides are maps,
\* replacement or insertion otherwise) and the rest of the environment
\* document deep-merged right-biased on top, environment references then
\* resolved; base {a:{x:1,y:2}} with overrides {a:{y:9}} gives
\* {a:{x:1,y:9}} and with the plain environment map {a:{z:3}} gives
\* {a:{x:1,y:2,z:3}}.
C9_LoadConfigMerge ==
    config_loaded =>
        LET base == BaseOf(base_file)
            overrides == OverridesOf(env_file)
            rest == RestOf(env_file)
        IN /\ config = ProcessEnvVars(
                         Dict(RightBiased(AfterOverrides(base, overrides), rest)),
                         environ).items
           /\ (base = ExampleBase /\ overrides = ExampleOverrides /\ rest = EmptyDict)
                => config = [s \in {"a"} |->
                                Dict([k \in {"x", "y"} |-> IF k = "x" THEN One ELSE Nine])]
           /\ (base = ExampleBase /\ overrides = EmptyDict /\ rest = ExampleRest)
                => config = [s \in {"a"} |->
                                Dict([k \in {"x", "y", "z"} |->
                                        IF k = "x" THEN One
                                        ELSE IF k = "y" THEN Two ELSE Three])]

\* base {a:{x:1,y:2}} has been loaded with overrides {a:{y:9}}
C9_Witness ==
    /\ config_loaded
    /\ BaseOf(base_file) = ExampleBase
    /\ env_file.exists
    /\ "overrides" \in DOMAIN env_file.doc
    /\ OverridesOf(env_file) = ExampleOverrides
    /\ RestOf(env_file) = EmptyDict

(***************************************************************************)
(* APIExecutor._resolve_variables (src/executor/api_executor.py).  A text  *)
(* is a sequence of symbols: the characters "$", "{", "}", ":" and words   *)
(* made of other characters.                                               *)
(***************************************************************************)
MaxParts == 2                   \* pieces of one text

PyInt(text) == [py |-> "int", text |-> text]
PyStr(text) == [py |-> "str", text |-> text]
PyNone == [py |-> "NoneType", text |-> <<>>]

\* str(value)
Str(value) == IF value.py = "NoneType" THEN <<"None">> ELSE value.text
\* bool(value) of a str or of None
Truthy(value) == value.py = "str" /\ value.text # <<>>

\* the pieces texts are made of: a word, a placeholder with or without a
\* default, or other symbols
Lit(word) == [kind |-> "lit", name |-> <<>>, has_default |-> FALSE,
              default |-> <<>>, symbols |-> <<word>>]
Var(name) == [kind |-> "var", name |-> <<name>>, has_default |-> FALSE,
              default |-> <<>>, symbols |-> <<"$", "{", name, "}">>]
VarDefault(name, default) ==
    [kind |-> "var", name |-> <<name>>, has_default |-> TRUE,
     default |-> <<default>>, symbols |-> <<"$", "{", name, ":", default, "}">>]
Raw(symbols) == [kind |-> "raw", name |-> <<>>, has_default |-> FALSE,
                 default |-> <<>>, symbols |-> symbols]

Pieces == {Lit("/users/"), Var("id"), VarDefault("id", "42"), Var("auth_token"),
           VarDefault("auth_token", "42"),
           Raw(<<"$", "{", "}">>), Raw(<<"$", "{", "id", ":", "}">>),
           Raw(<<"$">>), Raw(<<"}">>), Raw(<<"{">>),
           Raw(<<"$", "{", "id", ":", "42", ":", "7", "}">>)}

Texts == UNION {[1..n -> Pieces] : n \in 0..MaxParts}

RECURSIVE TextOf(_)
TextOf(ps) == IF ps = <<>> THEN <<>> ELSE Head(ps).symbols \o TextOf(Tail(ps))

StoredNames == {<<"id">>, <<"auth_token">>}
StoredValues == {PyInt(<<"7">>), PyNone, PyStr(<<"tok">>)}
Tokens == {PyStr(<<"tok">>), PyStr(<<>>)}

\* the index after the longest run, from index i, of symbols outside `stops`
RECURSIVE RunEnd(_, _, _)
RunEnd(text, i, stops) ==
    IF i <= Len(text) /\ text[i] \notin stops THEN RunEnd(text, i + 1, stops) ELSE i

NoMatch == [matched |-> FALSE, var_name |-> <<>>, has_default |-> FALSE,
            default_value |-> <<>>, end |-> 0]

\* line 74: a match of \$\{([^:}]+)(?::([^}]+))?\} that begins at index i
MatchAt(text, i) ==
    IF i + 1 <= Len(text) /\ text[i] = "$" /\ text[i + 1] = "{"
    THEN LET n == RunEnd(text, i + 2, {":", "}"})
         IN IF n = i + 2 \/ n > Len(text) THEN NoMatch
            ELSE IF text[n] = "}"
            THEN [matched |-> TRUE, var_name |-> SubSeq(text, i + 2, n - 1),
                  has_default |-> FALSE, default_value |-> <<>>, end |-> n]
            ELSE LET d == RunEnd(text, n + 1, {"}"})
                 IN IF d = n + 1 \/ d > Len(text) THEN NoMatch
                    ELSE [matched |-> TRUE, var_name |-> SubSeq(text, i + 2, n - 1),
                          has_default |-> TRUE,
                          default_value |-> SubSeq(text, n + 1, d - 1), end |-> d]
    ELSE NoMatch

Returned(text) == [ok |-> TRUE, out |-> text]
\* line 92: ValueError(f"Variable '{var_name}' not found in context")
Raised(var_name) == [ok |-> FALSE, out |-> var_name]

\* a replacer that prefers the declared default to the Context
ReplacerDefaultFirst(match, ctx, token) ==
    IF match.has_default THEN Returned(match.default_value)
    ELSE IF match.var_name \in DOMAIN ctx THEN Returned(Str(ctx[match.var_name]))
    ELSE IF match.var_name = <<"auth_token">> /\ Truthy(token)
    THEN Returned(token.text)
    ELSE Raised(match.var_name)

\* replacer, lines 76-92
Replacer(match, ctx, token) ==
    IF match.var_name \in DOMAIN ctx THEN Returned(Str(ctx[match.var_name]))
    ELSE IF match.var_name = <<"auth_token">> /\ Truthy(token)
    THEN Returned(token.text)
    ELSE IF match.has_default THEN Returned(match.default_value)
    ELSE Raised(match.var_name)

\* line 94: re.sub(pattern, replacer, text), from index i on
RECURSIVE Sub(_, _, _, _)
Sub(text, i, ctx, token) ==
    IF i > Len(text) THEN Returned(<<>>)
    ELSE LET match == MatchAt(text, i)
         IN IF match.matched
            THEN LET r == Replacer(match, ctx, token)
                 IN IF ~r.ok THEN r
                    ELSE LET rest == Sub(text, match.end + 1, ctx, token)
                         IN IF rest.ok THEN Returned(r.out \o rest.out) ELSE rest
            ELSE LET rest == Sub(text, i + 1, ctx, token)
                 IN IF rest.ok THEN Returned(<<text[i]>> \o rest.out) ELSE rest

\* _resolve_variables, lines 68-94, of a str; one text is followed between
\* two changes of the Context
ResolveVariables(ps) ==
    /\ parts = <<>>
    /\ parts' = ps
    /\ resolved' = Sub(TextOf(ps), 1, context, auth_token)
    /\ UNCHANGED <<context, auth_token, notResolveVars>>

\* store_value, lines 59-62
StoreValue(key, value) ==
    /\ context' = Put(context, key, value)
    /\ parts' = <<>>
    /\ resolved' = Returned(<<>>)
    /\ UNCHANGED <<auth_token, notResolveVars>>

\* _extract_response_values, lines 364-371, for the key 'auth_token'
ExtractAuthToken(value) ==
    /\ context' = Put(context, <<"auth_token">>, value)
    /\ auth_token' = value
    /\ parts' = <<>>
    /\ resolved' = Returned(<<>>)
    /\ UNCHANGED notResolveVars

\* __init__, lines 25-30
InitResolve ==
    /\ NoRun
    /\ NoParserUse
    /\ NoClassifyUse
    /\ NoStepUse
    /\ NoApiStepUse
    /\ NoFinderUse
    /\ NoApiUse
    /\ NoTableUse
    /\ NoCacheUse
    /\ NoConfigUse
    /\ context = EmptyDict
    /\ auth_token = PyNone
    /\ parts = <<>>
    /\ resolved = Returned(<<>>)

NextResolve ==
    \/ \E key \in StoredNames, value \in StoredValues : StoreValue(key, value)
    \/ \E value \in Tokens : ExtractAuthToken(value)
    \/ \E ps \in Texts : ResolveVariables(ps)

SpecResolve == InitResolve /\ [][NextResolve]_vars

(***************************************************************************)
(* Properties of APIExecutor._resolve_variables (SpecResolve).             *)
(***************************************************************************)
\* what a piece stands for: the Context value of its name; else, for
\* auth_token, the held token; else its default; else nothing
ValueOf(piece) ==
    IF piece.kind = "lit" THEN Returned(piece.symbols)
    ELSE IF piece.name \in DOMAIN context THEN Returned(Str(context[piece.name]))
    ELSE IF piece.name = <<"auth_token">> /\ Truthy(auth_token)
    THEN Returned(auth_token.text)
    ELSE IF piece.has_default THEN Returned(piece.default)
    ELSE Raised(piece.name)

RECURSIVE ValuesOf(_)
ValuesOf(ps) ==
    IF ps = <<>> THEN <<>> ELSE ValueOf(Head(ps)).out \o ValuesOf(Tail(ps))

\* C10: in a text made of words and placeholders, every ${name} and
\* ${name:default} is replaced by the Context value bound to name, else for
\* auth_token by the held token, else by the default; the call fails, naming
\* the first placeholder that has none of these, when there is one.  So
\* '/users/${id:42}' gives '/users/42' without id in the Context and
\* '/users/7' with id bound to 7.
C10_ResolutionPriority ==
    (\A n \in DOMAIN parts : parts[n].kind \in {"lit", "var"}) =>
        LET missing == {n \in DOMAIN parts : ~ValueOf(parts[n]).ok}
        IN /\ resolved.ok <=> missing = {}
           /\ resolved.ok => resolved.out = ValuesOf(parts)
           /\ ~resolved.ok =>
                \E n \in missing : /\ \A k \in missing : n <= k
                                   /\ resolved.out = parts[n].name
           /\ parts = <<Lit("/users/"), VarDefault("id", "42")>> =>
                /\ <<"id">> \notin DOMAIN context
                     => resolved = Returned(<<"/users/", "42">>)
                /\ (<<"id">> \in DOMAIN context /\ context[<<"id">>] = PyInt(<<"7">>))
                     => resolved = Returned(<<"/users/", "7">>)

\* '/users/${id:42}' has been resolved after store_value('id', 7)
C10_Witness ==
    /\ parts = <<Lit("/users/"), VarDefault("id", "42")>>
    /\ <<"id">> \in DOMAIN context
    /\ context[<<"id">>] = PyInt(<<"7">>)
    /\ resolved = Returned(<<"/users/", "7">>)

(***************************************************************************)
(* APIExecutor.execute_api and execute_file_upload (SpecApi): one call     *)
(* resolves the definition against the Context, checks the token, issues   *)
(* the request and logs to the reporter.                                   *)
(***************************************************************************)
MaxApiCalls == 2                \* calls of one run

\* the API definitions of the configuration file: texts of the endpoint, of
\* the one header, of the one body field and of the one query parameter
\* (empty: none), the auth entry, and whether 'validation' (status: 200)
\* and 'response.extract' (auth_token) are present
Endpoints == {<<Lit("/users/")>>, <<Lit("/users/"), Var("id")>>}
HeaderTexts == {<<>>, <<Var("auth_token")>>}
BodyTexts == {<<>>, <<Var("id")>>}
QueryTexts == {<<>>, <<VarDefault("id", "42")>>}
AuthEntries == {"required", "absent"}
ApiConfigs ==
    [endpoint : Endpoints, headers : HeaderTexts, body : BodyTexts,
     query : QueryTexts, auth : AuthEntries, validation : BOOLEAN,
     extract : BOOLEAN]

\* **kwargs: nothing, or id=7
Kwargs == {EmptyDict, [k \in {<<"id">>} |-> PyInt(<<"7">>)]}

\* what the session does with the request: a response with a status, whose
\* body holds a token or not, a timeout, or a failure of the transport
Response(status, token) == [kind |-> "response", status |-> status, token |-> token]
Timeout == [kind |-> "timeout", status |-> 0, token |-> FALSE]
TransportFailure == [kind |-> "failure", status |-> 0, token |-> FALSE]
NetOutcomes == {Response(200, TRUE), Response(200, FALSE), Response(500, FALSE),
                Timeout, TransportFailure}

\* how a call ends: the exception it raises, or none
NoError == [type |-> "none", text |-> <<>>]
AuthRequired ==
    [type |-> "ValueError",
     text |-> <<"Authentication required but no auth token available">>]
VariableNotFound(var_name) ==
    [type |-> "ValueError", text |-> <<"Variable not found in context">> \o var_name]
FileNotFound == [type |-> "FileNotFoundError", text |-> <<"File not found">>]
StatusMismatch == [type |-> "AssertionError", text |-> <<"Expected status 200">>]
TimeoutError == [type |-> "TimeoutError", text |-> <<>>]
ClientError == [type |-> "ClientError", text |-> <<>>]

\* for key, value in kwargs.items(): self.store_value(key, value)
StoreKwargs(ctx, kwargs) ==
    [k \in DOMAIN ctx \cup DOMAIN kwargs |->
        IF k \in DOMAIN kwargs THEN kwargs[k] ELSE ctx[k]]

\* the steps before the request, in the order of the code
ApiStages == <<"endpoint", "headers", "auth", "body", "query">>
UploadStages == <<"endpoint", "body", "headers", "auth">>

\* one step before the request: the exception it raises, or none
Stage(stage, api_config, ctx, token) ==
    IF stage = "auth"
    THEN IF api_config.auth = "required" /\ ~Truthy(token) THEN AuthRequired
         ELSE NoError
    ELSE LET r == Sub(TextOf(api_config[stage]), 1, ctx, token)
         IN IF r.ok THEN NoError ELSE VariableNotFound(r.out)

\* the exception of the first step that raises, or none
RECURSIVE Prepare(_, _, _, _)
Prepare(stages, api_config, ctx, token) ==
    IF stages = <<>> THEN NoError
    ELSE LET e == Stage(Head(stages), api_config, ctx, token)
         IN IF e # NoError THEN e
            ELSE Prepare(Tail(stages), api_config, ctx, token)

\* log_api_call: the record appended to test_results
Record(status, error) ==
    [code |-> status,
     error |-> error,
     status |-> IF status < 400 /\ error = NoError THEN "passed" ELSE "failed"]

\* _validate_response against validation: {status: 200}
ValidateResponse(api_config, net) ==
    IF api_config.validation /\ net.status # 200 THEN StatusMismatch ELSE NoError

\* the token _extract_response_values finds in the body
Extracted == PyStr(<<"tok">>)

\* what is kept of a call: the auth entry of its definition, whether a token
\* was held when it began, how many records the reporter held, whether the
\* request was issued, and the exception raised
CallOf(name, api_config, requested, error) ==
    [call |-> name, auth |-> api_config.auth, token_held |-> Truthy(auth_token),
     records_before |-> Len(test_results), requested |-> requested,
     error |-> error]

\* a call with the given steps before the request
Execute(name, stages, api_config, kwargs, net) ==
    LET ctx == StoreKwargs(context, kwargs)
        e == Prepare(stages, api_config, ctx, auth_token)
    IN /\ parts' = <<>>
       /\ resolved' = Returned(<<>>)
       /\ IF e # NoError
          THEN /\ context' = ctx
               /\ lastApi' = CallOf(name, api_config, FALSE, e)
               /\ UNCHANGED <<auth_token, test_results, requests>>
          ELSE /\ requests' = requests + 1
               /\ LET x == IF net.kind = "response"
                           THEN ValidateResponse(api_config, net)
                           ELSE IF net.kind = "timeout" THEN TimeoutError
                           ELSE ClientError
                      extracts == net.kind = "response" /\ api_config.extract
                                  /\ net.token
                      logged == IF net.kind = "response"
                                THEN Append(test_results, Record(net.status, NoError))
                                ELSE test_results
                  IN /\ context' = IF extracts
                                   THEN Put(ctx, <<"auth_token">>, Extracted)
                                   ELSE ctx
                     /\ auth_token' = IF extracts THEN Extracted ELSE auth_token
                     /\ test_results' = IF x = NoError THEN logged
                                        ELSE Append(logged, Record(0, x))
                     /\ lastApi' = CallOf(name, api_config, TRUE, x)

\* execute_api, lines 122-237
ExecuteApi(api_config, kwargs, net) ==
    /\ napi < MaxApiCalls
    /\ napi' = napi + 1
    /\ Execute("execute_api", ApiStages, api_config, kwargs, net)
    /\ UNCHANGED notApiVars

\* execute_file_upload, lines 239-352, of a file that exists
ExecuteFileUpload(api_config, kwargs, net) ==
    /\ napi < MaxApiCalls
    /\ napi' = napi + 1
    /\ Execute("execute_file_upload", UploadStages, api_config, kwargs, net)
    /\ UNCHANGED notApiVars

\* execute_file_upload, lines 241-242, of a file that does not exist
UploadMissingFile(api_config) ==
    /\ napi < MaxApiCalls
    /\ napi' = napi + 1
    /\ lastApi' = CallOf("execute_file_upload", api_config, FALSE, FileNotFound)
    /\ UNCHANGED <<test_results, requests, resolveVars, notApiVars>>

\* __init__, lines 23-28, and APITestReporter.__init__, lines 425-426
InitApi ==
    /\ NoRun
    /\ NoParserUse
    /\ NoClassifyUse
    /\ NoStepUse
    /\ NoApiStepUse
    /\ NoFinderUse
    /\ NoTableUse
    /\ NoCacheUse
    /\ NoConfigUse
    /\ context = EmptyDict
    /\ auth_token = PyNone
    /\ parts = <<>>
    /\ resolved = Returned(<<>>)
    /\ test_results = <<>>
    /\ requests = 0
    /\ napi = 0
    /\ lastApi = CallOf("none", CHOOSE c \in ApiConfigs : TRUE, FALSE, NoError)

NextApi ==
    \/ \E api_config \in ApiConfigs, kwargs \in Kwargs, net \in NetOutcomes :
          ExecuteApi(api_config, kwargs, net)
    \/ \E api_config \in ApiConfigs, kwargs \in Kwargs, net \in NetOutcomes :
          ExecuteFileUpload(api_config, kwargs, net)
    \/ \E api_config \in ApiConfigs : UploadMissingFile(api_config)

SpecApi == InitApi /\ [][NextApi]_vars

(***************************************************************************)
(* Properties of APIExecutor.execute_api (SpecApi).                        *)
(***************************************************************************)
\* C11: a call of execute_api on a definition with auth: required, made
\* while no token is held, ends with 'Authentication required but no auth
\* token available' and issues no request, whatever the endpoint, headers,
\* body and query of the definition contain.
C11_AuthRequiredBeforeAnythingElse ==
    (/\ lastApi.call = "execute_api"
     /\ lastApi.auth = "required"
     /\ ~lastApi.token_held)
    => (lastApi.error = AuthRequired /\ ~lastApi.requested)

\* C20: every call of execute_api or execute_file_upload that reaches the
\* request adds exactly one record to the reporter, whether the request
\* succeeds, times out, fails in transport or fails validation.
C20_OneRecordPerRequest ==
    lastApi.requested => Len(test_results) = lastApi.records_before + 1

(***************************************************************************)
(* StepExecutor._handle_verify_table (SpecTable): the data table of the    *)
(* step is compared with the table of the page.  Texts are sequences of    *)
(* characters.                                                             *)
(***************************************************************************)
UpperLetters == <<"A", "B", "C", "D", "E", "F", "G", "H", "I", "J", "K", "L", "M",
                  "N", "O", "P", "Q", "R", "S", "T", "U", "V", "W", "X", "Y", "Z">>
LowerLetters == <<"a", "b", "c", "d", "e", "f", "g", "h", "i", "j", "k", "l", "m",
                  "n", "o", "p", "q", "r", "s", "t", "u", "v", "w", "x", "y", "z">>

\* str.lower()
LowerCase(text) ==
    [n \in DOMAIN text |->
        IF \E u \in DOMAIN UpperLetters : UpperLetters[u] = text[n]
        THEN LowerLetters[CHOOSE u \in DOMAIN UpperLetters : UpperLetters[u] = text[n]]
        ELSE text[n]]

\* str.strip()
RECURSIVE Strip(_)
Strip(text) ==
    IF text = <<>> THEN <<>>
    ELSE IF Head(text) = " " THEN Strip(Tail(text))
    ELSE IF text[Len(text)] = " " THEN Strip(SubSeq(text, 1, Len(text) - 1))
    ELSE text

\* a in b, of two str
Contains(a, b) ==
    \E n \in 0..(Len(b) - Len(a)) : SubSeq(b, n + 1, n + Len(a)) = a

NameHeader == <<"N", "a", "m", "e">>
StatusHeader == <<"S", "t", "a", "t", "u", "s">>
Alice == <<"A", "l", "i", "c", "e">>
Bob == <<"B", "o", "b">>
Active == <<"A", "c", "t", "i", "v", "e">>
Inactive == <<"I", "n", "a", "c", "t", "i", "v", "e">>
Pending == <<"P", "e", "n", "d", "i", "n", "g">>
Star == <<"*">>
PaddedStar == <<" ", "*">>
Blank == <<>>

\* the data tables of a step: the header row Name, Status and up to two
\* expected rows
ExpectedRowCounts == {0, 1, 2}
ExpectedRow == {<<n, v>> : n \in {Alice, Bob}, v \in {Star, PaddedStar, Blank, Active}}
DataTables ==
    UNION {{<<<<NameHeader, StatusHeader>>>> \o rows : rows \in [1..k -> ExpectedRow]}
           : k \in ExpectedRowCounts}

\* the tables of a page: none, or header texts and up to two rows of cells;
\* a row may lack its second cell or begin with a header text
ActualRowCounts == {0, 1, 2}
ActualRow ==
    {<<n, v>> : n \in {Alice, Bob}, v \in {Active, Inactive, Pending, Blank}}
        \cup {<<Bob>>, <<NameHeader, Active>>}
ActualHeaders == {<<NameHeader, StatusHeader>>, <<NameHeader>>}
NoTable == [found |-> FALSE, headers |-> <<>>, rows |-> <<>>]
PageTables ==
    {NoTable} \cup
    UNION {[found : {TRUE}, headers : ActualHeaders, rows : [1..k -> ActualRow]]
           : k \in ActualRowCounts}

\* how the handler ends: it returns rows_checked, or raises with the cells
\* its message names, or raises something else
Verified(rows_checked) ==
    [ok |-> TRUE, rows_checked |-> rows_checked, raised |-> "", named |-> <<>>]
VerificationFailed(error_details) ==
    [ok |-> FALSE, rows_checked |-> 0, raised |-> "Table verification failed",
     named |-> error_details]
HandlerRaised(message) ==
    [ok |-> FALSE, rows_checked |-> 0, raised |-> message, named |-> <<>>]
NotVerified == HandlerRaised("not called")

\* lines 2463-2476: the column of an expected header, by equal text first
\* and by containment either way next, in lower case; 0 when there is none
\* (columns are counted from 1 here)
ColumnOf(expected_header, actual_headers) ==
    LET exact == {i \in DOMAIN actual_headers :
                     LowerCase(actual_headers[i]) = LowerCase(expected_header)}
        partial == {i \in DOMAIN actual_headers :
                       \/ Contains(LowerCase(expected_header), LowerCase(actual_headers[i]))
                       \/ Contains(LowerCase(actual_headers[i]), LowerCase(expected_header))}
        least(S) == CHOOSE i \in S : \A j \in S : i <= j
    IN IF exact # {} THEN least(exact)
       ELSE IF partial # {} THEN least(partial)
       ELSE 0

\* lines 2493-2512: the rows with cells whose first cell is no header text
DataRows(rows, actual_headers) ==
    LET IsDataRow(row) ==
            /\ Len(row) > 0
            /\ \A i \in DOMAIN actual_headers : Strip(row[1]) # actual_headers[i]
    IN SelectSeq(rows, IsDataRow)

\* row.text_content()
RECURSIVE RowText(_)
RowText(row) == IF row = <<>> THEN <<>> ELSE Head(row) \o RowText(Tail(row))

\* lines 2516-2531: the rows with cells that contain an expected value
FallbackRows(rows, expected_rows) ==
    LET HasExpectedValue(row) ==
            /\ Len(row) > 0
            /\ \E i \in DOMAIN expected_rows : \E j \in DOMAIN expected_rows[i] :
                  Contains(expected_rows[i][j], RowText(row))
    IN SelectSeq(rows, HasExpectedValue)

\* lines 2637-2668: the comparison of one cell
Compare(expected_value, actual_value) ==
    IF Strip(expected_value) = Star \/ Strip(expected_value) = <<>> THEN "skipped"
    ELSE IF LowerCase(actual_value) = LowerCase(expected_value) THEN "passed"
    ELSE IF \/ Contains(LowerCase(expected_value), LowerCase(actual_value))
            \/ Contains(LowerCase(actual_value), LowerCase(expected_value))
    THEN "passed"
    ELSE "failed"

\* lines 2557-2668: the detail of one expected cell
Detail(expected_headers, actual_headers, expected_value, header_index, cells) ==
    LET header == expected_headers[header_index]
        column_index == ColumnOf(header, actual_headers)
    IN IF column_index = 0
       THEN [header |-> header, status |-> "skipped", expected |-> expected_value,
             actual |-> <<>>]
       ELSE IF column_index > Len(cells)
       THEN [header |-> header, status |-> "failed", expected |-> expected_value,
             actual |-> <<"Cell not found">>]
       ELSE LET actual_value == Strip(cells[column_index])
            IN [header |-> header,
                status |-> Compare(expected_value, actual_value),
                expected |-> expected_value, actual |-> actual_value]

\* lines 2539-2670: the result of one expected row (rows are counted from 0)
RowResult(expected_headers, actual_headers, expected_rows, table_rows, n) ==
    IF n > Len(table_rows)
    THEN [row |-> n - 1, status |-> "failed", has_details |-> FALSE, details |-> <<>>]
    ELSE LET columns == {j \in DOMAIN expected_rows[n] : j <= Len(expected_headers)}
             details == [j \in columns |->
                            Detail(expected_headers, actual_headers,
                                   expected_rows[n][j], j, table_rows[n])]
         IN [row |-> n - 1,
             status |-> IF \E j \in columns : details[j].status = "failed"
                        THEN "failed" ELSE "passed",
             has_details |-> TRUE, details |-> details]

\* lines 2675-2689: the cells the error message names, row by row
RECURSIVE ErrorDetails(_, _)
ErrorDetails(verification_results, n) ==
    IF n > Len(verification_results) THEN <<>>
    ELSE LET result == verification_results[n]
             IsFailed(detail) == detail.status = "failed"
             row_errors ==
                 SelectSeq([j \in DOMAIN result.details |->
                               [row |-> result.row,
                                header |-> result.details[j].header,
                                expected |-> result.details[j].expected,
                                actual |-> result.details[j].actual,
                                status |-> result.details[j].status]], IsFailed)
         IN (IF result.status = "failed" THEN row_errors ELSE <<>>)
                \o ErrorDetails(verification_results, n + 1)

\* _handle_verify_table, lines 2391-2694
VerifyTable(dt, tbl) ==
    IF Len(dt) < 2 THEN HandlerRaised("Table verification requires a data table")
    ELSE IF ~tbl.found THEN HandlerRaised("Table not found")
    ELSE LET expected_headers == Head(dt)
             expected_rows == Tail(dt)
             data_rows == DataRows(tbl.rows, tbl.headers)
             table_rows == IF data_rows # <<>> THEN data_rows
                           ELSE FallbackRows(tbl.rows, expected_rows)
             verification_results ==
                 [n \in DOMAIN expected_rows |->
                     RowResult(expected_headers, tbl.headers, expected_rows, table_rows, n)]
         IN IF table_rows = <<>> THEN HandlerRaised("No data rows found in table")
            ELSE IF \A n \in DOMAIN verification_results :
                       verification_results[n].status = "passed"
            THEN Verified(Len(expected_rows))
            ELSE IF \E n \in DOMAIN verification_results :
                       ~verification_results[n].has_details
            THEN HandlerRaised("KeyError: 'details'")
            ELSE VerificationFailed(ErrorDetails(verification_results, 1))

\* the step verify_table is executed on the page
HandleVerifyTable ==
    /\ verification = NotVerified
    /\ verification' = VerifyTable(data_table, table)
    /\ UNCHANGED <<data_table, table, notTableVars>>

InitTable ==
    /\ NoRun
    /\ NoParserUse
    /\ NoClassifyUse
    /\ NoStepUse
    /\ NoApiStepUse
    /\ NoFinderUse
    /\ NoCacheUse
    /\ NoConfigUse
    /\ NoResolveUse
    /\ NoApiUse
    /\ data_table \in DataTables
    /\ table \in PageTables
    /\ verification = NotVerified

NextTable == HandleVerifyTable

SpecTable == InitTable /\ [][NextTable]_vars

(***************************************************************************)
(* Properties of StepExecutor._handle_verify_table (SpecTable).            *)
(***************************************************************************)
\* the page shows the columns Name and Status and one full row, none of
\* them a header row, for each expected row
Aligned ==
    /\ Len(data_table) >= 2
    /\ table.found
    /\ table.headers = <<NameHeader, StatusHeader>>
    /\ Len(table.rows) >= Len(data_table) - 1
    /\ \A n \in DOMAIN table.rows : Len(table.rows[n]) = 2 /\ table.rows[n][1] # NameHeader

\* the error names row n (counted from 0) and the column of header j
Names(n, j) ==
    /\ verification.raised = "Table verification failed"
    /\ \E e \in DOMAIN verification.named :
          /\ verification.named[e].row = n
          /\ verification.named[e].header = data_table[1][j]

\* C12: on such a page verify_table fails whenever an expected cell that is
\* neither '*' nor empty differs (case aside) from the text of the actual
\* cell, and its error names the row and the column; so the expected rows
\* Alice/'*' and Bob/'Active' against a second row Bob/'Inactive' fail on
\* row 1, column Status.
C12_MismatchFailsNamingRowAndColumn ==
    (verification # NotVerified /\ Aligned) =>
        \A n \in 1..(Len(data_table) - 1) : \A j \in 1..2 :
            (/\ Strip(data_table[n + 1][j]) \notin {Star, Blank}
             /\ LowerCase(Strip(table.rows[n][j])) # LowerCase(data_table[n + 1][j]))
            => Names(n - 1, j)

(***************************************************************************)
(* FeatureParser._parse_feature_file and parse_features (SpecParser).  The *)
(* file is read line by line; each action is one branch of the loop body.  *)
(* A feature file begins with its Feature line, after at most one tag       *)
(* line; the Step of a line holds the line's number, its action and         *)
(* parameters being those of _parse_step_text (SpecClassify).               *)
(***************************************************************************)
MaxLines == 5                   \* lines after the Feature line

TagLines == {<<"@a">>, <<"@b", "@a">>}
RequestedTags == {<<>>, <<"@a">>, <<"@b">>, <<"@c">>}

Line(kind, line_tags) == [kind |-> kind, tags |-> line_tags]

NoBackground == [present |-> FALSE, steps |-> <<>>]
NoFeature ==
    [defined |-> FALSE, tags |-> <<>>, scenarios |-> <<>>, background |-> NoBackground]
NoScenario == [line_number |-> 0, tags |-> <<>>, steps |-> <<>>, examples |-> -1]
NoBlock == [kind |-> "None", scenario |-> NoScenario]
NotCalled == [called |-> FALSE, tags |-> <<>>, list |-> <<>>]

\* enumerate(lines, 1)
line_num == Len(lines) + 1

\* the lines read after the Feature line
BodyLines == Cardinality({n \in DOMAIN lines : \E f \in 1..n : lines[f].kind = "feature"}) - 1

\* the next line of the file is of this kind
Reads(kind, line_tags) ==
    /\ ~parsed
    /\ IF feature.defined THEN kind # "feature" /\ BodyLines < MaxLines
       ELSE kind = "feature" \/ (kind = "tags" /\ lines = <<>>)
    /\ lines' = Append(lines, Line(kind, line_tags))

\* x in list
In(x, list) == \E n \in DOMAIN list : list[n] = x

\* lines 509-515: the pending tags, then the feature tags not among them
RECURSIVE Inherit(_, _)
Inherit(scenario_tags, feature_tags) ==
    IF feature_tags = <<>> THEN scenario_tags
    ELSE Inherit(IF In(Head(feature_tags), scenario_tags) THEN scenario_tags
                 ELSE Append(scenario_tags, Head(feature_tags)),
                 Tail(feature_tags))

\* pending tags that outlive the Scenario line
KeepTags(pending) == pending

\* line 524: tags = []
AfterScenario(pending) == <<>>

\* lines 503-505, 568-571: the open Scenario is appended to feature.scenarios
Flush(scenarios, block, examples) ==
    IF block.kind = "scenario"
    THEN Append(scenarios, [block.scenario EXCEPT !.examples = examples])
    ELSE scenarios

\* _process_examples, lines 696-708: the rows kept of an examples table
\* (the cells of a row are not modelled: every row is as long as the header)
ProcessExamples(rows) == IF rows < 2 THEN 0 ELSE rows - 1

\* current_step.data_table.append(row_data): the Step read at line n, where
\* it is held
AddRow(steps, n) ==
    [k \in DOMAIN steps |->
        IF steps[k].line_number = n
        THEN [steps[k] EXCEPT !.data_table = @ + 1] ELSE steps[k]]

\* lines 477-479: a tag line
ParseTags(line_tags) ==
    /\ Reads("tags", line_tags)
    /\ tags' = line_tags
    /\ UNCHANGED <<feature, current_scenario, background, in_examples, examples_data,
                   current_step, parsed, features, notParserVars>>

\* lines 482-491: the Feature line
ParseFeature ==
    /\ Reads("feature", <<>>)
    /\ feature' = [defined |-> TRUE, tags |-> tags, scenarios |-> <<>>,
                   background |-> NoBackground]
    /\ UNCHANGED <<tags, current_scenario, background, in_examples, examples_data,
                   current_step, parsed, features, notParserVars>>

\* lines 494-501: a Background line
ParseBackgroundLine ==
    /\ Reads("background", <<>>)
    /\ background' = [present |-> TRUE, steps |-> <<>>]
    /\ current_scenario' = [kind |-> "background", scenario |-> NoScenario]
    /\ UNCHANGED <<feature, tags, in_examples, examples_data, current_step, parsed,
                   features, notParserVars>>

\* lines 504-526: a Scenario or Scenario Outline line
ParseScenarioLine ==
    /\ Reads("scenario", <<>>)
    /\ feature' = [feature EXCEPT
                      !.scenarios = Flush(@, current_scenario,
                                          current_scenario.scenario.examples)]
    /\ current_scenario' =
           [kind |-> "scenario",
            scenario |-> [line_number |-> line_num,
                          tags |-> Inherit(tags, feature.tags),
                          steps |-> <<>>, examples |-> -1]]
    /\ tags' = AfterScenario(tags)
    /\ in_examples' = FALSE
    /\ UNCHANGED <<background, examples_data, current_step, parsed, features,
                   notParserVars>>

\* lines 529-531: an Examples line
ParseExamplesLine ==
    /\ Reads("examples", <<>>)
    /\ in_examples' = TRUE
    /\ examples_data' = 0
    /\ UNCHANGED <<feature, current_scenario, background, tags, current_step, parsed,
                   features, notParserVars>>

\* lines 534-536: a table row inside an Examples block
ParseExampleRow ==
    /\ in_examples
    /\ Reads("row", <<>>)
    /\ examples_data' = examples_data + 1
    /\ UNCHANGED <<feature, current_scenario, background, tags, in_examples,
                   current_step, parsed, features, notParserVars>>

\* lines 539-556: a Given, When, Then, And or But line
ParseStepLine ==
    /\ Reads("step", <<>>)
    /\ LET step == [line_number |-> line_num, data_table |-> 0]
       IN /\ current_scenario' =
                 IF current_scenario.kind = "scenario"
                 THEN [current_scenario EXCEPT !.scenario.steps = Append(@, step)]
                 ELSE current_scenario
          /\ background' =
                 IF current_scenario.kind = "background"
                 THEN [background EXCEPT !.steps = Append(@, step)]
                 ELSE background
    /\ current_step' = line_num
    /\ UNCHANGED <<feature, tags, in_examples, examples_data, parsed, features,
                   notParserVars>>

\* lines 559-563: a table row after a Step, outside an Examples block
ParseDataTableRow ==
    /\ ~in_examples
    /\ current_step # 0
    /\ Reads("row", <<>>)
    /\ current_scenario' =
           [current_scenario EXCEPT !.scenario.steps = AddRow(@, current_step)]
    /\ background' = [background EXCEPT !.steps = AddRow(@, current_step)]
    /\ feature' = [feature EXCEPT
                      !.scenarios = [k \in DOMAIN @ |->
                                        [@[k] EXCEPT !.steps = AddRow(@, current_step)]]]
    /\ UNCHANGED <<tags, in_examples, examples_data, current_step, parsed, features,
                   notParserVars>>

\* a table row that no branch takes: no Step was read and no Examples block
\* is open
IgnoreRow ==
    /\ ~in_examples
    /\ current_step = 0
    /\ Reads("row", <<>>)
    /\ UNCHANGED <<feature, current_scenario, background, tags, in_examples,
                   examples_data, current_step, parsed, features, notParserVars>>

\* lines 566-576: the end of the file
EndOfFile ==
    /\ ~parsed
    /\ feature.defined
    /\ feature' = [feature EXCEPT
                      !.scenarios =
                          Flush(@, current_scenario,
                                IF in_examples /\ examples_data > 0
                                THEN ProcessExamples(examples_data)
                                ELSE current_scenario.scenario.examples),
                      !.background = background]
    /\ parsed' = TRUE
    /\ UNCHANGED <<lines, current_scenario, background, tags, in_examples,
                   examples_data, current_step, features, notParserVars>>

\* any(tag in scenario.tags for tag in tags)
Intersects(requested, scenario_tags) ==
    \E n \in DOMAIN requested : In(requested[n], scenario_tags)

\* parse_features, lines 435-457, of a directory that holds this one file
ParseFeatures(requested) ==
    /\ parsed
    /\ ~features.called
    /\ LET filtered_scenarios ==
               SelectSeq(feature.scenarios, LAMBDA s : Intersects(requested, s.tags))
       IN features' =
              [called |-> TRUE, tags |-> requested,
               list |-> IF requested = <<>> THEN <<feature>>
                        ELSE IF filtered_scenarios # <<>>
                        THEN <<[feature EXCEPT !.scenarios = filtered_scenarios]>>
                        ELSE <<>>]
    /\ UNCHANGED <<lines, feature, current_scenario, background, tags, in_examples,
                   examples_data, current_step, parsed, notParserVars>>

\* lines 465-471: the locals before the loop
InitParser ==
    /\ NoRun
    /\ NoCacheUse
    /\ NoConfigUse
    /\ NoResolveUse
    /\ NoApiUse
    /\ NoTableUse
    /\ NoClassifyUse
    /\ NoStepUse
    /\ NoApiStepUse
    /\ NoFinderUse
    /\ lines = <<>>
    /\ feature = NoFeature
    /\ current_scenario = NoBlock
    /\ background = NoBackground
    /\ tags = <<>>
    /\ in_examples = FALSE
    /\ examples_data = 0
    /\ current_step = 0
    /\ parsed = FALSE
    /\ features = NotCalled

NextParser ==
    \/ \E line_tags \in TagLines : ParseTags(line_tags)
    \/ ParseFeature
    \/ ParseBackgroundLine
    \/ ParseScenarioLine
    \/ ParseExamplesLine
    \/ ParseExampleRow
    \/ ParseStepLine
    \/ ParseDataTableRow
    \/ IgnoreRow
    \/ EndOfFile
    \/ \E requested \in RequestedTags : ParseFeatures(requested)

SpecParser == InitParser /\ [][NextParser]_vars

(***************************************************************************)
(* Properties of the FeatureParser (SpecParser).                           *)
(***************************************************************************)
\* the lines of a kind, in file order
LinesOf(kind) == {n \in DOMAIN lines : lines[n].kind = kind}

\* the line that opens the block line n lies in: the last Feature,
\* Background or Scenario line before it
BlockOf(n) ==
    LET before == {k \in 1..(n - 1) : lines[k].kind \in {"feature", "background", "scenario"}}
    IN IF before = {} THEN 0 ELSE CHOOSE k \in before : \A j \in before : j <= k

\* the tags of a Scenario line's own tag line: the last tag line between
\* the Scenario or Feature line before it and the line itself
OwnTags(n) ==
    LET opened == {k \in 1..(n - 1) : lines[k].kind \in {"feature", "scenario"}}
        from == IF opened = {} THEN 0 ELSE CHOOSE k \in opened : \A j \in opened : j <= k
        own == {k \in (from + 1)..(n - 1) : lines[k].kind = "tags"}
    IN IF own = {} THEN <<>>
       ELSE lines[CHOOSE k \in own : \A j \in own : j <= k].tags

\* the members of a set of numbers, in increasing order
RECURSIVE Sorted(_)
Sorted(S) ==
    IF S = {} THEN <<>>
    ELSE LET least == CHOOSE k \in S : \A j \in S : k <= j
         IN <<least>> \o Sorted(S \ {least})

LineNumbers(list) == [k \in DOMAIN list |-> list[k].line_number]

\* C13: after parsing, the tag list of every scenario is its own tags
\* followed by each feature tag not among them, so that a scenario without
\* a tag line of its own has the feature tags only; parse_features(tags)
\* keeps exactly the scenarios whose tag list holds a requested tag and
\* drops a feature left with none, so a tag of the feature keeps them all.
C13_TagInheritanceAndFilter ==
    /\ parsed =>
          \A k \in DOMAIN feature.scenarios :
              LET s == feature.scenarios[k]
                  own == OwnTags(s.line_number)
              IN s.tags = own \o SelectSeq(feature.tags, LAMBDA t : ~In(t, own))
    /\ (features.called /\ features.tags # <<>>) =>
          LET kept == SelectSeq(feature.scenarios,
                                LAMBDA s : \E n \in DOMAIN features.tags :
                                              In(features.tags[n], s.tags))
          IN /\ features.list = IF kept = <<>> THEN <<>>
                                ELSE <<[feature EXCEPT !.scenarios = kept]>>
             /\ (In(features.tags[1], feature.tags) /\ feature.scenarios # <<>>)
                   => features.list = <<feature>>

\* C13 witness: a parsed file in which a scenario with a tag line of its own
\* is followed by one without, under a tagged feature, filtered by a tag of
\* the feature
C13_Witness ==
    /\ features.called
    /\ features.tags = <<"@a">>
    /\ feature.tags = <<"@a">>
    /\ Len(feature.scenarios) = 2
    /\ feature.scenarios[1].tags = <<"@b", "@a">>
    /\ feature.scenarios[2].tags = <<"@a">>
    /\ Len(features.list) = 1

\* C17: the parsed Feature holds one Scenario per Scenario line, in file
\* order, each with exactly the step lines of its block, in order, and the
\* background holds the step lines that follow a Background line: no
\* scenario and no step is lost, whatever the order of the blocks.
C17_NoScenarioOrStepLost ==
    parsed =>
        /\ LineNumbers(feature.scenarios) = Sorted(LinesOf("scenario"))
        /\ \A k \in DOMAIN feature.scenarios :
              LineNumbers(feature.scenarios[k].steps)
                  = Sorted({n \in LinesOf("step") :
                               BlockOf(n) = feature.scenarios[k].line_number})
        /\ LineNumbers(feature.background.steps)
              = Sorted({n \in LinesOf("step") : BlockOf(n) # 0
                                                 /\ lines[BlockOf(n)].kind = "background"})

\* ======================================================================
\* FeatureParser._parse_step_text (src/parser/feature_parser.py, lines
\* 585-647) over the action patterns of _initialize_action_patterns
\* (lines 53-430).  A text is a sequence of characters; the patterns are
\* the regular expressions of the source, element by element, matched as
\* re.match matches them: anchored at the start, alternatives in order,
\* greedy pieces longest first, lazy pieces shortest first, backtracking.
\* A text that no bucket of pattern_order matches goes to _fallback_parse
\* (lines 649-694).
\* ======================================================================

\* the characters of each word that occurs in a pattern or in a step text
Spell(word) ==
    CASE word = " " -> <<" ">>
      [] word = " and " -> <<" ", "a", "n", "d", " ">>
      [] word = " as " -> <<" ", "a", "s", " ">>
      [] word = " authenticated as " -> <<" ", "a", "u", "t", "h", "e", "n", "t", "i", "c", "a", "t", "e", "d", " ", "a", "s", " ">>
      [] word = " button" -> <<" ", "b", "u", "t", "t", "o", "n">>
      [] word = " button [FORCE AI]" -> <<" ", "b", "u", "t", "t", "o", "n", " ", "[", "F", "O", "R", "C", "E", " ", "A", "I", "]">>
      [] word = " button to be visible" -> <<" ", "b", "u", "t", "t", "o", "n", " ", "t", "o", " ", "b", "e", " ", "v", "i", "s", "i", "b", "l", "e">>
      [] word = " call" -> <<" ", "c", "a", "l", "l">>
      [] word = " checkbox" -> <<" ", "c", "h", "e", "c", "k", "b", "o", "x">>
      [] word = " checkbox should be unchecked" -> <<" ", "c", "h", "e", "c", "k", "b", "o", "x", " ", "s", "h", "o", "u", "l", "d", " ", "b", "e", " ", "u", "n", "c", "h", "e", "c", "k", "e", "d">>
      [] word = " credentials" -> <<" ", "c", "r", "e", "d", "e", "n", "t", "i", "a", "l", "s">>
      [] word = " dropdown" -> <<" ", "d", "r", "o", "p", "d", "o", "w", "n">>
      [] word = " field" -> <<" ", "f", "i", "e", "l", "d">>
      [] word = " field [force ai]" -> <<" ", "f", "i", "e", "l", "d", " ", "[", "f", "o", "r", "c", "e", " ", "a", "i", "]">>
      [] word = " field with " -> <<" ", "f", "i", "e", "l", "d", " ", "w", "i", "t", "h", " ">>
      [] word = " from " -> <<" ", "f", "r", "o", "m", " ">>
      [] word = " from the " -> <<" ", "f", "r", "o", "m", " ", "t", "h", "e", " ">>
      [] word = " in " -> <<" ", "i", "n", " ">>
      [] word = " in Country" -> <<" ", "i", "n", " ", "C", "o", "u", "n", "t", "r", "y">>
      [] word = " in the " -> <<" ", "i", "n", " ", "t", "h", "e", " ">>
      [] word = " is " -> <<" ", "i", "s", " ">>
      [] word = " on " -> <<" ", "o", "n", " ">>
      [] word = " page" -> <<" ", "p", "a", "g", "e">>
      [] word = " radio button" -> <<" ", "r", "a", "d", "i", "o", " ", "b", "u", "t", "t", "o", "n">>
      [] word = " response " -> <<" ", "r", "e", "s", "p", "o", "n", "s", "e", " ">>
      [] word = " response as " -> <<" ", "r", "e", "s", "p", "o", "n", "s", "e", " ", "a", "s", " ">>
      [] word = " response field " -> <<" ", "r", "e", "s", "p", "o", "n", "s", "e", " ", "f", "i", "e", "l", "d", " ">>
      [] word = " response matches" -> <<" ", "r", "e", "s", "p", "o", "n", "s", "e", " ", "m", "a", "t", "c", "h", "e", "s">>
      [] word = " response status " -> <<" ", "r", "e", "s", "p", "o", "n", "s", "e", " ", "s", "t", "a", "t", "u", "s", " ">>
      [] word = " response time should be less than " -> <<" ", "r", "e", "s", "p", "o", "n", "s", "e", " ", "t", "i", "m", "e", " ", "s", "h", "o", "u", "l", "d", " ", "b", "e", " ", "l", "e", "s", "s", " ", "t", "h", "a", "n", " ">>
      [] word = " second" -> <<" ", "s", "e", "c", "o", "n", "d">>
      [] word = " seconds" -> <<" ", "s", "e", "c", "o", "n", "d", "s">>
      [] word = " to " -> <<" ", "t", "o", " ">>
      [] word = " to appear" -> <<" ", "t", "o", " ", "a", "p", "p", "e", "a", "r">>
      [] word = " with" -> <<" ", "w", "i", "t", "h">>
      [] word = "\"" -> <<"\"">>
      [] word = "${" -> <<"$", "{">>
      [] word = "'" -> <<"'">>
      [] word = "-" -> <<"-">>
      [] word = "." -> <<".">>
      [] word = "30" -> <<"3", "0">>
      [] word = "42" -> <<"4", "2">>
      [] word = "5" -> <<"5">>
      [] word = ":" -> <<":">>
      [] word = "API" -> <<"A", "P", "I">>
      [] word = "B" -> <<"B">>
      [] word = "B list" -> <<"B", " ", "l", "i", "s", "t">>
      [] word = "Country" -> <<"C", "o", "u", "n", "t", "r", "y">>
      [] word = "I CLICK the " -> <<"I", " ", "C", "L", "I", "C", "K", " ", "t", "h", "e", " ">>
      [] word = "I am on the login page" -> <<"I", " ", "a", "m", " ", "o", "n", " ", "t", "h", "e", " ", "l", "o", "g", "i", "n", " ", "p", "a", "g", "e">>
      [] word = "I click the " -> <<"I", " ", "c", "l", "i", "c", "k", " ", "t", "h", "e", " ">>
      [] word = "I click the \"Login\" button" -> <<"I", " ", "c", "l", "i", "c", "k", " ", "t", "h", "e", " ", "\"", "L", "o", "g", "i", "n", "\"", " ", "b", "u", "t", "t", "o", "n">>
      [] word = "I enter " -> <<"I", " ", "e", "n", "t", "e", "r", " ">>
      [] word = "I enter \"x\" in the \"email\" field" -> <<"I", " ", "e", "n", "t", "e", "r", " ", "\"", "x", "\"", " ", "i", "n", " ", "t", "h", "e", " ", "\"", "e", "m", "a", "i", "l", "\"", " ", "f", "i", "e", "l", "d">>
      [] word = "I fill the " -> <<"I", " ", "f", "i", "l", "l", " ", "t", "h", "e", " ">>
      [] word = "I hover over \"Menu\"" -> <<"I", " ", "h", "o", "v", "e", "r", " ", "o", "v", "e", "r", " ", "\"", "M", "e", "n", "u", "\"">>
      [] word = "I open the page home" -> <<"I", " ", "o", "p", "e", "n", " ", "t", "h", "e", " ", "p", "a", "g", "e", " ", "h", "o", "m", "e">>
      [] word = "I press the " -> <<"I", " ", "p", "r", "e", "s", "s", " ", "t", "h", "e", " ">>
      [] word = "I select " -> <<"I", " ", "s", "e", "l", "e", "c", "t", " ">>
      [] word = "I select date range " -> <<"I", " ", "s", "e", "l", "e", "c", "t", " ", "d", "a", "t", "e", " ", "r", "a", "n", "g", "e", " ">>
      [] word = "I should see " -> <<"I", " ", "s", "h", "o", "u", "l", "d", " ", "s", "e", "e", " ">>
      [] word = "I should see \"Welcome\"" -> <<"I", " ", "s", "h", "o", "u", "l", "d", " ", "s", "e", "e", " ", "\"", "W", "e", "l", "c", "o", "m", "e", "\"">>
      [] word = "I store the API response as " -> <<"I", " ", "s", "t", "o", "r", "e", " ", "t", "h", "e", " ", "A", "P", "I", " ", "r", "e", "s", "p", "o", "n", "s", "e", " ", "a", "s", " ">>
      [] word = "I store the API response field " -> <<"I", " ", "s", "t", "o", "r", "e", " ", "t", "h", "e", " ", "A", "P", "I", " ", "r", "e", "s", "p", "o", "n", "s", "e", " ", "f", "i", "e", "l", "d", " ">>
      [] word = "I uncheck the " -> <<"I", " ", "u", "n", "c", "h", "e", "c", "k", " ", "t", "h", "e", " ">>
      [] word = "I wait " -> <<"I", " ", "w", "a", "i", "t", " ">>
      [] word = "I wait for text " -> <<"I", " ", "w", "a", "i", "t", " ", "f", "o", "r", " ", "t", "e", "x", "t", " ">>
      [] word = "I wait for the " -> <<"I", " ", "w", "a", "i", "t", " ", "f", "o", "r", " ", "t", "h", "e", " ">>
      [] word = "Login" -> <<"L", "o", "g", "i", "n">>
      [] word = "Made from wood" -> <<"M", "a", "d", "e", " ", "f", "r", "o", "m", " ", "w", "o", "o", "d">>
      [] word = "Option A" -> <<"O", "p", "t", "i", "o", "n", " ", "A">>
      [] word = "Remember me checkbox" -> <<"R", "e", "m", "e", "m", "b", "e", "r", " ", "m", "e", " ", "c", "h", "e", "c", "k", "b", "o", "x">>
      [] word = "Save" -> <<"S", "a", "v", "e">>
      [] word = "Save as" -> <<"S", "a", "v", "e", " ", "a", "s">>
      [] word = "Save button" -> <<"S", "a", "v", "e", " ", "b", "u", "t", "t", "o", "n">>
      [] word = "Sign in here" -> <<"S", "i", "g", "n", " ", "i", "n", " ", "h", "e", "r", "e">>
      [] word = "Welcome" -> <<"W", "e", "l", "c", "o", "m", "e">>
      [] word = "Welcome back" -> <<"W", "e", "l", "c", "o", "m", "e", " ", "b", "a", "c", "k">>
      [] word = "[FORCE AI]" -> <<"[", "F", "O", "R", "C", "E", " ", "A", "I", "]">>
      [] word = "[Force AI]" -> <<"[", "F", "o", "r", "c", "e", " ", "A", "I", "]">>
      [] word = "[Force Ai]" -> <<"[", "F", "o", "r", "c", "e", " ", "A", "i", "]">>
      [] word = "[force ai]" -> <<"[", "f", "o", "r", "c", "e", " ", "a", "i", "]">>
      [] word = "a" -> <<"a">>
      [] word = "a " -> <<"a", " ">>
      [] word = "access" -> <<"a", "c", "c", "e", "s", "s">>
      [] word = "active" -> <<"a", "c", "t", "i", "v", "e">>
      [] word = "after" -> <<"a", "f", "t", "e", "r">>
      [] word = "am" -> <<"a", "m">>
      [] word = "am logged in" -> <<"a", "m", " ", "l", "o", "g", "g", "e", "d", " ", "i", "n">>
      [] word = "and" -> <<"a", "n", "d">>
      [] word = "api" -> <<"a", "p", "i">>
      [] word = "appear" -> <<"a", "p", "p", "e", "a", "r">>
      [] word = "are" -> <<"a", "r", "e">>
      [] word = "as" -> <<"a", "s">>
      [] word = "authenticate as " -> <<"a", "u", "t", "h", "e", "n", "t", "i", "c", "a", "t", "e", " ", "a", "s", " ">>
      [] word = "authenticate using " -> <<"a", "u", "t", "h", "e", "n", "t", "i", "c", "a", "t", "e", " ", "u", "s", "i", "n", "g", " ">>
      [] word = "authenticate with " -> <<"a", "u", "t", "h", "e", "n", "t", "i", "c", "a", "t", "e", " ", "w", "i", "t", "h", " ">>
      [] word = "bar" -> <<"b", "a", "r">>
      [] word = "be" -> <<"b", "e">>
      [] word = "before" -> <<"b", "e", "f", "o", "r", "e">>
      [] word = "box" -> <<"b", "o", "x">>
      [] word = "button" -> <<"b", "u", "t", "t", "o", "n">>
      [] word = "call" -> <<"c", "a", "l", "l">>
      [] word = "call " -> <<"c", "a", "l", "l", " ">>
      [] word = "capture" -> <<"c", "a", "p", "t", "u", "r", "e">>
      [] word = "check" -> <<"c", "h", "e", "c", "k">>
      [] word = "checkbox" -> <<"c", "h", "e", "c", "k", "b", "o", "x">>
      [] word = "checked" -> <<"c", "h", "e", "c", "k", "e", "d">>
      [] word = "choose" -> <<"c", "h", "o", "o", "s", "e">>
      [] word = "click" -> <<"c", "l", "i", "c", "k">>
      [] word = "combobox" -> <<"c", "o", "m", "b", "o", "b", "o", "x">>
      [] word = "complete" -> <<"c", "o", "m", "p", "l", "e", "t", "e">>
      [] word = "contain" -> <<"c", "o", "n", "t", "a", "i", "n">>
      [] word = "contains" -> <<"c", "o", "n", "t", "a", "i", "n", "s">>
      [] word = "create" -> <<"c", "r", "e", "a", "t", "e">>
      [] word = "data" -> <<"d", "a", "t", "a">>
      [] word = "data.id" -> <<"d", "a", "t", "a", ".", "i", "d">>
      [] word = "date" -> <<"d", "a", "t", "e">>
      [] word = "date range" -> <<"d", "a", "t", "e", " ", "r", "a", "n", "g", "e">>
      [] word = "datetime" -> <<"d", "a", "t", "e", "t", "i", "m", "e">>
      [] word = "deselect" -> <<"d", "e", "s", "e", "l", "e", "c", "t">>
      [] word = "disable" -> <<"d", "i", "s", "a", "b", "l", "e">>
      [] word = "disabled" -> <<"d", "i", "s", "a", "b", "l", "e", "d">>
      [] word = "display" -> <<"d", "i", "s", "p", "l", "a", "y">>
      [] word = "displayed" -> <<"d", "i", "s", "p", "l", "a", "y", "e", "d">>
      [] word = "dropdown" -> <<"d", "r", "o", "p", "d", "o", "w", "n">>
      [] word = "element" -> <<"e", "l", "e", "m", "e", "n", "t">>
      [] word = "email" -> <<"e", "m", "a", "i", "l">>
      [] word = "enable" -> <<"e", "n", "a", "b", "l", "e">>
      [] word = "enabled" -> <<"e", "n", "a", "b", "l", "e", "d">>
      [] word = "endpoint" -> <<"e", "n", "d", "p", "o", "i", "n", "t">>
      [] word = "enter" -> <<"e", "n", "t", "e", "r">>
      [] word = "enters" -> <<"e", "n", "t", "e", "r", "s">>
      [] word = "equals" -> <<"e", "q", "u", "a", "l", "s">>
      [] word = "es" -> <<"e", "s">>
      [] word = "execute" -> <<"e", "x", "e", "c", "u", "t", "e">>
      [] word = "field" -> <<"f", "i", "e", "l", "d">>
      [] word = "field " -> <<"f", "i", "e", "l", "d", " ">>
      [] word = "fill" -> <<"f", "i", "l", "l">>
      [] word = "following" -> <<"f", "o", "l", "l", "o", "w", "i", "n", "g">>
      [] word = "for" -> <<"f", "o", "r">>
      [] word = "from" -> <<"f", "r", "o", "m">>
      [] word = "generate" -> <<"g", "e", "n", "e", "r", "a", "t", "e">>
      [] word = "get" -> <<"g", "e", "t">>
      [] word = "go" -> <<"g", "o">>
      [] word = "go to" -> <<"g", "o", " ", "t", "o">>
      [] word = "have" -> <<"h", "a", "v", "e">>
      [] word = "i" -> <<"i">>
      [] word = "i " -> <<"i", " ">>
      [] word = "i am" -> <<"i", " ", "a", "m">>
      [] word = "in" -> <<"i", "n">>
      [] word = "inactive" -> <<"i", "n", "a", "c", "t", "i", "v", "e">>
      [] word = "include" -> <<"i", "n", "c", "l", "u", "d", "e">>
      [] word = "input" -> <<"i", "n", "p", "u", "t">>
      [] word = "inputs" -> <<"i", "n", "p", "u", "t", "s">>
      [] word = "into" -> <<"i", "n", "t", "o">>
      [] word = "is" -> <<"i", "s">>
      [] word = "it" -> <<"i", "t">>
      [] word = "john@example.com" -> <<"j", "o", "h", "n", "@", "e", "x", "a", "m", "p", "l", "e", ".", "c", "o", "m">>
      [] word = "less than" -> <<"l", "e", "s", "s", " ", "t", "h", "a", "n">>
      [] word = "link" -> <<"l", "i", "n", "k">>
      [] word = "list" -> <<"l", "i", "s", "t">>
      [] word = "listbox" -> <<"l", "i", "s", "t", "b", "o", "x">>
      [] word = "load" -> <<"l", "o", "a", "d">>
      [] word = "log in" -> <<"l", "o", "g", " ", "i", "n">>
      [] word = "log in box" -> <<"l", "o", "g", " ", "i", "n", " ", "b", "o", "x">>
      [] word = "login" -> <<"l", "o", "g", "i", "n">>
      [] word = "login as " -> <<"l", "o", "g", "i", "n", " ", "a", "s", " ">>
      [] word = "login using " -> <<"l", "o", "g", "i", "n", " ", "u", "s", "i", "n", "g", " ">>
      [] word = "login with " -> <<"l", "o", "g", "i", "n", " ", "w", "i", "t", "h", " ">>
      [] word = "make" -> <<"m", "a", "k", "e">>
      [] word = "mark" -> <<"m", "a", "r", "k">>
      [] word = "match" -> <<"m", "a", "t", "c", "h">>
      [] word = "message" -> <<"m", "e", "s", "s", "a", "g", "e">>
      [] word = "millisecond" -> <<"m", "i", "l", "l", "i", "s", "e", "c", "o", "n", "d">>
      [] word = "ms" -> <<"m", "s">>
      [] word = "navigate" -> <<"n", "a", "v", "i", "g", "a", "t", "e">>
      [] word = "navigate to" -> <<"n", "a", "v", "i", "g", "a", "t", "e", " ", "t", "o">>
      [] word = "of" -> <<"o", "f">>
      [] word = "on" -> <<"o", "n">>
      [] word = "open" -> <<"o", "p", "e", "n">>
      [] word = "option" -> <<"o", "p", "t", "i", "o", "n">>
      [] word = "page" -> <<"p", "a", "g", "e">>
      [] word = "page " -> <<"p", "a", "g", "e", " ">>
      [] word = "password " -> <<"p", "a", "s", "s", "w", "o", "r", "d", " ">>
      [] word = "pause" -> <<"p", "a", "u", "s", "e">>
      [] word = "pick" -> <<"p", "i", "c", "k">>
      [] word = "picker" -> <<"p", "i", "c", "k", "e", "r">>
      [] word = "present" -> <<"p", "r", "e", "s", "e", "n", "t">>
      [] word = "press" -> <<"p", "r", "e", "s", "s">>
      [] word = "radio" -> <<"r", "a", "d", "i", "o">>
      [] word = "range" -> <<"r", "a", "n", "g", "e">>
      [] word = "request" -> <<"r", "e", "q", "u", "e", "s", "t">>
      [] word = "respond with" -> <<"r", "e", "s", "p", "o", "n", "d", " ", "w", "i", "t", "h">>
      [] word = "response " -> <<"r", "e", "s", "p", "o", "n", "s", "e", " ">>
      [] word = "response as " -> <<"r", "e", "s", "p", "o", "n", "s", "e", " ", "a", "s", " ">>
      [] word = "return" -> <<"r", "e", "t", "u", "r", "n">>
      [] word = "role" -> <<"r", "o", "l", "e">>
      [] word = "s" -> <<"s">>
      [] word = "save " -> <<"s", "a", "v", "e", " ">>
      [] word = "screen" -> <<"s", "c", "r", "e", "e", "n">>
      [] word = "screenshot" -> <<"s", "c", "r", "e", "e", "n", "s", "h", "o", "t">>
      [] word = "search" -> <<"s", "e", "a", "r", "c", "h">>
      [] word = "sec" -> <<"s", "e", "c">>
      [] word = "second" -> <<"s", "e", "c", "o", "n", "d">>
      [] word = "section" -> <<"s", "e", "c", "t", "i", "o", "n">>
      [] word = "see" -> <<"s", "e", "e">>
      [] word = "select" -> <<"s", "e", "l", "e", "c", "t">>
      [] word = "selected" -> <<"s", "e", "l", "e", "c", "t", "e", "d">>
      [] word = "send" -> <<"s", "e", "n", "d">>
      [] word = "set" -> <<"s", "e", "t">>
      [] word = "should" -> <<"s", "h", "o", "u", "l", "d">>
      [] word = "should " -> <<"s", "h", "o", "u", "l", "d", " ">>
      [] word = "should be" -> <<"s", "h", "o", "u", "l", "d", " ", "b", "e">>
      [] word = "show" -> <<"s", "h", "o", "w">>
      [] word = "shown" -> <<"s", "h", "o", "w", "n">>
      [] word = "shows" -> <<"s", "h", "o", "w", "s">>
      [] word = "sign in as " -> <<"s", "i", "g", "n", " ", "i", "n", " ", "a", "s", " ">>
      [] word = "site " -> <<"s", "i", "t", "e", " ">>
      [] word = "state" -> <<"s", "t", "a", "t", "e">>
      [] word = "status" -> <<"s", "t", "a", "t", "u", "s">>
      [] word = "status " -> <<"s", "t", "a", "t", "u", "s", " ">>
      [] word = "step" -> <<"s", "t", "e", "p">>
      [] word = "store" -> <<"s", "t", "o", "r", "e">>
      [] word = "store " -> <<"s", "t", "o", "r", "e", " ">>
      [] word = "stored " -> <<"s", "t", "o", "r", "e", "d", " ">>
      [] word = "t" -> <<"t">>
      [] word = "tab" -> <<"t", "a", "b">>
      [] word = "table" -> <<"t", "a", "b", "l", "e">>
      [] word = "take" -> <<"t", "a", "k", "e">>
      [] word = "tap" -> <<"t", "a", "p">>
      [] word = "text" -> <<"t", "e", "x", "t">>
      [] word = "textbox" -> <<"t", "e", "x", "t", "b", "o", "x">>
      [] word = "that" -> <<"t", "h", "a", "t">>
      [] word = "the" -> <<"t", "h", "e">>
      [] word = "the " -> <<"t", "h", "e", " ">>
      [] word = "the menu" -> <<"t", "h", "e", " ", "m", "e", "n", "u">>
      [] word = "the user clicks on " -> <<"t", "h", "e", " ", "u", "s", "e", "r", " ", "c", "l", "i", "c", "k", "s", " ", "o", "n", " ">>
      [] word = "tick" -> <<"t", "i", "c", "k">>
      [] word = "to" -> <<"t", "o">>
      [] word = "to " -> <<"t", "o", " ">>
      [] word = "toggle" -> <<"t", "o", "g", "g", "l", "e">>
      [] word = "token" -> <<"t", "o", "k", "e", "n">>
      [] word = "type" -> <<"t", "y", "p", "e">>
      [] word = "types" -> <<"t", "y", "p", "e", "s">>
      [] word = "uncheck" -> <<"u", "n", "c", "h", "e", "c", "k">>
      [] word = "unchecked" -> <<"u", "n", "c", "h", "e", "c", "k", "e", "d">>
      [] word = "under" -> <<"u", "n", "d", "e", "r">>
      [] word = "unmark" -> <<"u", "n", "m", "a", "r", "k">>
      [] word = "untick" -> <<"u", "n", "t", "i", "c", "k">>
      [] word = "until" -> <<"u", "n", "t", "i", "l">>
      [] word = "upload " -> <<"u", "p", "l", "o", "a", "d", " ">>
      [] word = "upload file " -> <<"u", "p", "l", "o", "a", "d", " ", "f", "i", "l", "e", " ">>
      [] word = "url" -> <<"u", "r", "l">>
      [] word = "url " -> <<"u", "r", "l", " ">>
      [] word = "use " -> <<"u", "s", "e", " ">>
      [] word = "user" -> <<"u", "s", "e", "r">>
      [] word = "user " -> <<"u", "s", "e", "r", " ">>
      [] word = "user is" -> <<"u", "s", "e", "r", " ", "i", "s">>
      [] word = "user_id" -> <<"u", "s", "e", "r", "_", "i", "d">>
      [] word = "username " -> <<"u", "s", "e", "r", "n", "a", "m", "e", " ">>
      [] word = "validate" -> <<"v", "a", "l", "i", "d", "a", "t", "e">>
      [] word = "validate table" -> <<"v", "a", "l", "i", "d", "a", "t", "e", " ", "t", "a", "b", "l", "e">>
      [] word = "value " -> <<"v", "a", "l", "u", "e", " ">>
      [] word = "values" -> <<"v", "a", "l", "u", "e", "s">>
      [] word = "verify" -> <<"v", "e", "r", "i", "f", "y">>
      [] word = "verify " -> <<"v", "e", "r", "i", "f", "y", " ">>
      [] word = "verify table" -> <<"v", "e", "r", "i", "f", "y", " ", "t", "a", "b", "l", "e">>
      [] word = "visible" -> <<"v", "i", "s", "i", "b", "l", "e">>
      [] word = "visit" -> <<"v", "i", "s", "i", "t">>
      [] word = "wait" -> <<"w", "a", "i", "t">>
      [] word = "wait " -> <<"w", "a", "i", "t", " ">>
      [] word = "with" -> <<"w", "i", "t", "h">>
      [] word = "write" -> <<"w", "r", "i", "t", "e">>
      [] word = "x" -> <<"x">>
      [] word = "}" -> <<"}">>


\* the characters of the pieces of a text, one after the other
RECURSIVE Text(_)
Text(pieces) ==
    IF pieces = <<>> THEN <<>> ELSE Spell(Head(pieces)) \o Text(Tail(pieces))

Whitespace == {" "}
QuoteChars == {"\"", "'"}
DigitChars == {"0", "1", "2", "3", "4", "5", "6", "7", "8", "9"}
GroupNumbers == {1, 2, 3}

\* ---- the elements of a pattern ----
\* literal text, under re.IGNORECASE
Chr(word) == [op |-> "chr", word |-> word]
\* \s+ and \s*
Ws1 == [op |-> "run", class |-> Whitespace, min |-> 1]
Ws0 == [op |-> "run", class |-> Whitespace, min |-> 0]
\* ["\']* and ["\']
Quotes == [op |-> "run", class |-> QuoteChars, min |-> 0]
Quote == [op |-> "one", class |-> QuoteChars]
\* \d+
Digits == [op |-> "run", class |-> DigitChars, min |-> 1]
\* .*
AnyText == [op |-> "any"]
\* (.+?), (.*?) and (.+) as group k
Lazy(k) == [op |-> "lazy", group |-> k, min |-> 1]
Lazy0(k) == [op |-> "lazy", group |-> k, min |-> 0]
Greedy(k) == [op |-> "greedy", group |-> k, min |-> 1]
\* (?:a|b), (?:a|b)? and (a|b) as group k
Either(alts) == [op |-> "either", alts |-> alts, optional |-> FALSE]
Optional(alts) == [op |-> "either", alts |-> alts, optional |-> TRUE]
Capture(k, alts) == [op |-> "capture", alts |-> alts, group |-> k]
\* the end of group k, which started at position from
CaptureEnd(k, from) == [op |-> "capture_end", group |-> k, from |-> from]
\* $
End == [op |-> "end"]

\* ---- the result of a match ----
NoGroup == [set |-> FALSE, text |-> <<>>]
Group(text) == [set |-> TRUE, text |-> text]
NoGroups == [k \in GroupNumbers |-> NoGroup]
Fails == [matched |-> FALSE, groups |-> NoGroups]
Succeeds(groups) == [matched |-> TRUE, groups |-> groups]

\* the first of two attempts that matches
OrElse(first, second) == IF first.matched THEN first ELSE second

\* of the attempts <<end, match of the rest from end on>> the ones that
\* matched
Matched(attempts) == {a \in attempts : a[2].matched}

\* a greedy quantifier takes the longest stretch that lets the rest of the
\* pattern match
Longest(attempts) ==
    LET matched == Matched(attempts)
    IN IF matched = {} THEN Fails
       ELSE (CHOOSE a \in matched : \A b \in matched : b[1] <= a[1])[2]

\* (.+?) read as (.+)
Greedily(attempts) == Longest(attempts)

\* a lazy quantifier takes the shortest
Shortest(attempts) ==
    LET matched == Matched(attempts)
    IN IF matched = {} THEN Fails
       ELSE (CHOOSE a \in matched : \A b \in matched : a[1] <= b[1])[2]

\* the number of characters of the class that follow position i
RECURSIVE RunLength(_, _, _)
RunLength(text, i, class) ==
    IF i <= Len(text) /\ text[i] \in class
    THEN 1 + RunLength(text, i + 1, class) ELSE 0

RECURSIVE ReMatch(_, _, _, _)
RECURSIVE Alternatives(_, _, _, _, _, _)

\* the match of the pattern against the text from position i on
ReMatch(pattern, text, i, groups) ==
    IF Len(pattern) = 0 THEN Succeeds(groups)
    ELSE LET e == Head(pattern)
             rest == Tail(pattern)
         IN CASE e.op = "chr" ->
                     LET s == LowerCase(Spell(e.word))
                     IN IF /\ i + Len(s) - 1 <= Len(text)
                           /\ LowerCase(SubSeq(text, i, i + Len(s) - 1)) = s
                        THEN ReMatch(rest, text, i + Len(s), groups)
                        ELSE Fails
              [] e.op = "end" ->
                     IF i = Len(text) + 1
                     THEN ReMatch(rest, text, i, groups) ELSE Fails
              [] e.op = "one" ->
                     IF i <= Len(text) /\ text[i] \in e.class
                     THEN ReMatch(rest, text, i + 1, groups) ELSE Fails
              [] e.op = "any" ->
                     Longest({<<j, ReMatch(rest, text, j, groups)>> :
                                  j \in i..(Len(text) + 1)})
              [] e.op = "run" ->
                     Longest({<<j, ReMatch(rest, text, j, groups)>> :
                                  j \in (i + e.min)..(i + RunLength(text, i, e.class))})
              [] e.op \in {"lazy", "greedy"} ->
                     LET attempts ==
                             {<<j, ReMatch(rest, text, j,
                                           [groups EXCEPT
                                               ![e.group] =
                                                   Group(SubSeq(text, i, j - 1))])>> :
                                  j \in (i + e.min)..(Len(text) + 1)}
                     IN IF e.op = "lazy" THEN Shortest(attempts)
                        ELSE Longest(attempts)
              [] e.op = "either" ->
                     LET taken == Alternatives(e.alts, 1, rest, text, i, groups)
                     IN IF e.optional
                        THEN OrElse(taken, ReMatch(rest, text, i, groups))
                        ELSE taken
              [] e.op = "capture" ->
                     Alternatives(e.alts, 1,
                                  <<CaptureEnd(e.group, i)>> \o rest, text, i, groups)
              [] e.op = "capture_end" ->
                     ReMatch(rest, text, i,
                             [groups EXCEPT
                                 ![e.group] = Group(SubSeq(text, e.from, i - 1))])

\* the alternatives from the a-th on, in the order they are written
Alternatives(alts, a, rest, text, i, groups) ==
    IF a > Len(alts) THEN Fails
    ELSE OrElse(ReMatch(alts[a] \o rest, text, i, groups),
                Alternatives(alts, a + 1, rest, text, i, groups))

\* ---- the patterns, in the order of the source ----
\* 'navigate', lines 57-65
NavigatePatterns ==
    <<
      \* (?:i )?(?:open|navigate to|go to|visit|access) (?:the )?(?:url |page |site )?(.+)
      <<Optional(<<<<Chr("i ")>>>>), Either(<<<<Chr("open")>>, <<Chr("navigate to")>>,
          <<Chr("go to")>>, <<Chr("visit")>>, <<Chr("access")>>>>), Chr(" "),
          Optional(<<<<Chr("the ")>>>>), Optional(<<<<Chr("url ")>>, <<Chr("page ")>>,
          <<Chr("site ")>>>>), Greedy(1)>>,
      \* (?:i am|user is) on (?:the )?(.+) page
      <<Either(<<<<Chr("i am")>>, <<Chr("user is")>>>>), Chr(" on "),
          Optional(<<<<Chr("the ")>>>>), Greedy(1), Chr(" page")>>,
      \* (?:the )?(?:url|page) is (.+)
      <<Optional(<<<<Chr("the ")>>>>), Either(<<<<Chr("url")>>, <<Chr("page")>>>>),
          Chr(" is "), Greedy(1)>>
    >>

\* 'select_date_range', lines 239-250
SelectDateRangePatterns ==
    <<
      \* (?:i )?(?:select|choose|pick)\s+date\s+range\s+["\']*(.+?)["\']*\s+to\s+["\']*(.+?)["\']*\s+(?:in|for)\s+(?:the\s+)?["\']*(.+?)["\']*(?:\s+field)?$
      <<Optional(<<<<Chr("i ")>>>>), Either(<<<<Chr("select")>>, <<Chr("choose")>>,
          <<Chr("pick")>>>>), Ws1, Chr("date"), Ws1, Chr("range"), Ws1, Quotes, Lazy(1),
          Quotes, Ws1, Chr("to"), Ws1, Quotes, Lazy(2), Quotes, Ws1,
          Either(<<<<Chr("in")>>, <<Chr("for")>>>>), Ws1, Optional(<<<<Chr("the"),
          Ws1>>>>), Quotes, Lazy(3), Quotes, Optional(<<<<Ws1, Chr("field")>>>>), End>>,
      \* (?:i )?(?:select|set)\s+["\']*(.+?)["\']*\s+to\s+["\']*(.+?)["\']*\s+(?:as\s+)?(?:the\s+)?date\s+range\s+(?:in|for)\s+["\']*(.+?)["\']*$
      <<Optional(<<<<Chr("i ")>>>>), Either(<<<<Chr("select")>>, <<Chr("set")>>>>), Ws1,
          Quotes, Lazy(1), Quotes, Ws1, Chr("to"), Ws1, Quotes, Lazy(2), Quotes, Ws1,
          Optional(<<<<Chr("as"), Ws1>>>>), Optional(<<<<Chr("the"), Ws1>>>>),
          Chr("date"), Ws1, Chr("range"), Ws1, Either(<<<<Chr("in")>>,
          <<Chr("for")>>>>), Ws1, Quotes, Lazy(3), Quotes, End>>,
      \* (?:i )?(?:enter|input)\s+date\s+range\s+["\']*(.+?)["\']*\s+(?:to|-)\s+["\']*(.+?)["\']*\s+(?:in|for)\s+["\']*(.+?)["\']*$
      <<Optional(<<<<Chr("i ")>>>>), Either(<<<<Chr("enter")>>, <<Chr("input")>>>>),
          Ws1, Chr("date"), Ws1, Chr("range"), Ws1, Quotes, Lazy(1), Quotes, Ws1,
          Either(<<<<Chr("to")>>, <<Chr("-")>>>>), Ws1, Quotes, Lazy(2), Quotes, Ws1,
          Either(<<<<Chr("in")>>, <<Chr("for")>>>>), Ws1, Quotes, Lazy(3), Quotes,
          End>>,
      \* (?:i )?(?:select|choose|pick)\s+date\s+range\s+\$\{(.+?)\}\s+to\s+\$\{(.+?)\}\s+(?:in|for)\s+(?:the\s+)?["\']*(.+?)["\']*(?:\s+field)?$
      <<Optional(<<<<Chr("i ")>>>>), Either(<<<<Chr("select")>>, <<Chr("choose")>>,
          <<Chr("pick")>>>>), Ws1, Chr("date"), Ws1, Chr("range"), Ws1, Chr("${"),
          Lazy(1), Chr("}"), Ws1, Chr("to"), Ws1, Chr("${"), Lazy(2), Chr("}"), Ws1,
          Either(<<<<Chr("in")>>, <<Chr("for")>>>>), Ws1, Optional(<<<<Chr("the"),
          Ws1>>>>), Quotes, Lazy(3), Quotes, Optional(<<<<Ws1, Chr("field")>>>>), End>>
    >>

\* 'checkbox', lines 103-119
CheckboxPatterns ==
    <<
      \* (?:i )?(?:check|tick|mark|select)\s+(?:the\s+)?["\']*(.+?)["\']*\s+(?:checkbox|check\s*box)$
      <<Optional(<<<<Chr("i ")>>>>), Either(<<<<Chr("check")>>, <<Chr("tick")>>,
          <<Chr("mark")>>, <<Chr("select")>>>>), Ws1, Optional(<<<<Chr("the"), Ws1>>>>),
          Quotes, Lazy(1), Quotes, Ws1, Either(<<<<Chr("checkbox")>>, <<Chr("check"),
          Ws0, Chr("box")>>>>), End>>,
      \* (?:i )?(?:uncheck|untick|unmark|deselect)\s+(?:the\s+)?["\']*(.+?)["\']*\s+(?:checkbox|check\s*box)$
      <<Optional(<<<<Chr("i ")>>>>), Either(<<<<Chr("uncheck")>>, <<Chr("untick")>>,
          <<Chr("unmark")>>, <<Chr("deselect")>>>>), Ws1, Optional(<<<<Chr("the"),
          Ws1>>>>), Quotes, Lazy(1), Quotes, Ws1, Either(<<<<Chr("checkbox")>>,
          <<Chr("check"), Ws0, Chr("box")>>>>), End>>,
      \* (?:i )?(?:select|choose)\s+["\']*(.+?)["\']*\s+checkbox$
      <<Optional(<<<<Chr("i ")>>>>), Either(<<<<Chr("select")>>, <<Chr("choose")>>>>),
          Ws1, Quotes, Lazy(1), Quotes, Ws1, Chr("checkbox"), End>>,
      \* (?:i )?(?:deselect)\s+["\']*(.+?)["\']*\s+checkbox$
      <<Optional(<<<<Chr("i ")>>>>), Either(<<<<Chr("deselect")>>>>), Ws1, Quotes,
          Lazy(1), Quotes, Ws1, Chr("checkbox"), End>>,
      \* (?:the\s+)?["\']*(.+?)["\']*\s+(?:checkbox|check\s*box)\s+(?:should\s+)?(?:be\s+)?(checked|unchecked)$
      <<Optional(<<<<Chr("the"), Ws1>>>>), Quotes, Lazy(1), Quotes, Ws1,
          Either(<<<<Chr("checkbox")>>, <<Chr("check"), Ws0, Chr("box")>>>>), Ws1,
          Optional(<<<<Chr("should"), Ws1>>>>), Optional(<<<<Chr("be"), Ws1>>>>),
          Capture(2, <<<<Chr("checked")>>, <<Chr("unchecked")>>>>), End>>,
      \* (?:i )?(?:enable|disable)\s+(?:the\s+)?["\']*(.+?)["\']*\s+(?:checkbox|check\s*box)$
      <<Optional(<<<<Chr("i ")>>>>), Either(<<<<Chr("enable")>>, <<Chr("disable")>>>>),
          Ws1, Optional(<<<<Chr("the"), Ws1>>>>), Quotes, Lazy(1), Quotes, Ws1,
          Either(<<<<Chr("checkbox")>>, <<Chr("check"), Ws0, Chr("box")>>>>), End>>,
      \* (?:i )?(?:click|toggle)\s+(?:on\s+)?(?:the\s+)?["\']*(.+?)["\']*\s+(?:checkbox|check\s*box)$
      <<Optional(<<<<Chr("i ")>>>>), Either(<<<<Chr("click")>>, <<Chr("toggle")>>>>),
          Ws1, Optional(<<<<Chr("on"), Ws1>>>>), Optional(<<<<Chr("the"), Ws1>>>>),
          Quotes, Lazy(1), Quotes, Ws1, Either(<<<<Chr("checkbox")>>, <<Chr("check"),
          Ws0, Chr("box")>>>>), End>>,
      \* (?:i )?(?:set|make)\s+(?:the\s+)?["\']*(.+?)["\']*\s+(?:checkbox|check\s*box)\s+(?:to\s+)?(checked|unchecked)$
      <<Optional(<<<<Chr("i ")>>>>), Either(<<<<Chr("set")>>, <<Chr("make")>>>>), Ws1,
          Optional(<<<<Chr("the"), Ws1>>>>), Quotes, Lazy(1), Quotes, Ws1,
          Either(<<<<Chr("checkbox")>>, <<Chr("check"), Ws0, Chr("box")>>>>), Ws1,
          Optional(<<<<Chr("to"), Ws1>>>>), Capture(2, <<<<Chr("checked")>>,
          <<Chr("unchecked")>>>>), End>>
    >>

\* 'select', lines 68-77
SelectPatterns ==
    <<
      \* (?:i )?select\s+["\']*(.+?)["\']*\s+from\s+(?:the\s+)?["\']*(.+?)["\']*\s*(?:dropdown|select|list|listbox|combobox)?$
      <<Optional(<<<<Chr("i ")>>>>), Chr("select"), Ws1, Quotes, Lazy(1), Quotes, Ws1,
          Chr("from"), Ws1, Optional(<<<<Chr("the"), Ws1>>>>), Quotes, Lazy(2), Quotes,
          Ws0, Optional(<<<<Chr("dropdown")>>, <<Chr("select")>>, <<Chr("list")>>,
          <<Chr("listbox")>>, <<Chr("combobox")>>>>), End>>,
      \* (?:i )?select\s+["\']*(.+?)["\']*\s+in\s+(.+?)$
      <<Optional(<<<<Chr("i ")>>>>), Chr("select"), Ws1, Quotes, Lazy(1), Quotes, Ws1,
          Chr("in"), Ws1, Lazy(2), End>>,
      \* (?:i )?choose\s+["\']*(.+?)["\']*\s+(?:from|in)\s+(?:the\s+)?["\']*(.+?)["\']*$
      <<Optional(<<<<Chr("i ")>>>>), Chr("choose"), Ws1, Quotes, Lazy(1), Quotes, Ws1,
          Either(<<<<Chr("from")>>, <<Chr("in")>>>>), Ws1, Optional(<<<<Chr("the"),
          Ws1>>>>), Quotes, Lazy(2), Quotes, End>>,
      \* (?:from|in)\s+(?:the\s+)?["\']*(.+?)["\']*\s+(?:dropdown\s+|select\s+)?(?:i\s+)?select\s+["\']*(.+?)["\']*$
      <<Either(<<<<Chr("from")>>, <<Chr("in")>>>>), Ws1, Optional(<<<<Chr("the"),
          Ws1>>>>), Quotes, Lazy(1), Quotes, Ws1, Optional(<<<<Chr("dropdown"), Ws1>>,
          <<Chr("select"), Ws1>>>>), Optional(<<<<Chr("i"), Ws1>>>>), Chr("select"),
          Ws1, Quotes, Lazy(2), Quotes, End>>
    >>

\* 'radio', lines 122-132
RadioPatterns ==
    <<
      \* (?:i )?select\s+["\']*(.+?)["\']*\s+radio\s*(?:button)?$
      <<Optional(<<<<Chr("i ")>>>>), Chr("select"), Ws1, Quotes, Lazy(1), Quotes, Ws1,
          Chr("radio"), Ws0, Optional(<<<<Chr("button")>>>>), End>>,
      \* (?:i )?(?:choose|pick|select)\s+(?:the\s+)?["\']*(.+?)["\']*\s+(?:radio\s+)?option$
      <<Optional(<<<<Chr("i ")>>>>), Either(<<<<Chr("choose")>>, <<Chr("pick")>>,
          <<Chr("select")>>>>), Ws1, Optional(<<<<Chr("the"), Ws1>>>>), Quotes, Lazy(1),
          Quotes, Ws1, Optional(<<<<Chr("radio"), Ws1>>>>), Chr("option"), End>>,
      \* (?:i )?(?:click|select)\s+(?:on\s+)?(?:the\s+)?["\']*(.+?)["\']*\s+radio\s*(?:button)?$
      <<Optional(<<<<Chr("i ")>>>>), Either(<<<<Chr("click")>>, <<Chr("select")>>>>),
          Ws1, Optional(<<<<Chr("on"), Ws1>>>>), Optional(<<<<Chr("the"), Ws1>>>>),
          Quotes, Lazy(1), Quotes, Ws1, Chr("radio"), Ws0,
          Optional(<<<<Chr("button")>>>>), End>>,
      \* (?:the )?radio\s*(?:button)?\s+["\']*(.+?)["\']*\s+is\s+selected$
      <<Optional(<<<<Chr("the ")>>>>), Chr("radio"), Ws0,
          Optional(<<<<Chr("button")>>>>), Ws1, Quotes, Lazy(1), Quotes, Ws1, Chr("is"),
          Ws1, Chr("selected"), End>>,
      \* (?:i )?(?:select|choose)\s+radio\s*(?:button)?\s+["\']*(.+?)["\']*$
      <<Optional(<<<<Chr("i ")>>>>), Either(<<<<Chr("select")>>, <<Chr("choose")>>>>),
          Ws1, Chr("radio"), Ws0, Optional(<<<<Chr("button")>>>>), Ws1, Quotes, Lazy(1),
          Quotes, End>>
    >>

\* 'click', lines 80-88
ClickPatterns ==
    <<
      \* (?:i )?click(?:\s+on)?\s+(?:the\s+)?["\']*(.+?)["\']*(?:\s*(?:button|link|element))?$
      <<Optional(<<<<Chr("i ")>>>>), Chr("click"), Optional(<<<<Ws1, Chr("on")>>>>),
          Ws1, Optional(<<<<Chr("the"), Ws1>>>>), Quotes, Lazy(1), Quotes,
          Optional(<<<<Ws0, Either(<<<<Chr("button")>>, <<Chr("link")>>,
          <<Chr("element")>>>>)>>>>), End>>,
      \* (?:i )?(?:press|tap)\s+(?:the\s+)?["\']*(.+?)["\']*(?:\s*(?:button|link))?$
      <<Optional(<<<<Chr("i ")>>>>), Either(<<<<Chr("press")>>, <<Chr("tap")>>>>), Ws1,
          Optional(<<<<Chr("the"), Ws1>>>>), Quotes, Lazy(1), Quotes, Optional(<<<<Ws0,
          Either(<<<<Chr("button")>>, <<Chr("link")>>>>)>>>>), End>>,
      \* (?:the )?(?:user )?clicks?\s+(?:on\s+)?(?:the\s+)?["\']*(.+?)["\']*$
      <<Optional(<<<<Chr("the ")>>>>), Optional(<<<<Chr("user ")>>>>), Chr("click"),
          Optional(<<<<Chr("s")>>>>), Ws1, Optional(<<<<Chr("on"), Ws1>>>>),
          Optional(<<<<Chr("the"), Ws1>>>>), Quotes, Lazy(1), Quotes, End>>
    >>

\* 'input', lines 91-100
InputPatterns ==
    <<
      \* (?:i )?(?:enter|type|input|fill|write)\s+["\']*(.+?)["\']*\s+(?:in|into)\s+(?:the\s+)?["\']*(.+?)["\']*(?:\s*(?:field|input|textbox))?(?:\s*\[force ai\])?$
      <<Optional(<<<<Chr("i ")>>>>), Either(<<<<Chr("enter")>>, <<Chr("type")>>,
          <<Chr("input")>>, <<Chr("fill")>>, <<Chr("write")>>>>), Ws1, Quotes, Lazy(1),
          Quotes, Ws1, Either(<<<<Chr("in")>>, <<Chr("into")>>>>), Ws1,
          Optional(<<<<Chr("the"), Ws1>>>>), Quotes, Lazy(2), Quotes, Optional(<<<<Ws0,
          Either(<<<<Chr("field")>>, <<Chr("input")>>, <<Chr("textbox")>>>>)>>>>),
          Optional(<<<<Ws0, Chr("[force ai]")>>>>), End>>,
      \* (?:i )?(?:enter|type|input|fill|write)\s+["\']*(.+?)["\']*\s+(?:in|into)\s+(?:the\s+)?["\']*(.+?)["\']*(?:\s*(?:field|input|textbox))?$
      <<Optional(<<<<Chr("i ")>>>>), Either(<<<<Chr("enter")>>, <<Chr("type")>>,
          <<Chr("input")>>, <<Chr("fill")>>, <<Chr("write")>>>>), Ws1, Quotes, Lazy(1),
          Quotes, Ws1, Either(<<<<Chr("in")>>, <<Chr("into")>>>>), Ws1,
          Optional(<<<<Chr("the"), Ws1>>>>), Quotes, Lazy(2), Quotes, Optional(<<<<Ws0,
          Either(<<<<Chr("field")>>, <<Chr("input")>>, <<Chr("textbox")>>>>)>>>>),
          End>>,
      \* (?:i )?(?:fill|enter)\s+(?:the\s+)?["\']*(.+?)["\']*(?:\s*(?:field|input))?\s+with\s+["\']*(.+?)["\']*$
      <<Optional(<<<<Chr("i ")>>>>), Either(<<<<Chr("fill")>>, <<Chr("enter")>>>>), Ws1,
          Optional(<<<<Chr("the"), Ws1>>>>), Quotes, Lazy(1), Quotes, Optional(<<<<Ws0,
          Either(<<<<Chr("field")>>, <<Chr("input")>>>>)>>>>), Ws1, Chr("with"), Ws1,
          Quotes, Lazy(2), Quotes, End>>,
      \* (?:the )?(?:user )?(?:enters|types|inputs)\s+["\']*(.+?)["\']*\s+(?:in|into)\s+(?:the\s+)?["\']*(.+?)["\']*$
      <<Optional(<<<<Chr("the ")>>>>), Optional(<<<<Chr("user ")>>>>),
          Either(<<<<Chr("enters")>>, <<Chr("types")>>, <<Chr("inputs")>>>>), Ws1,
          Quotes, Lazy(1), Quotes, Ws1, Either(<<<<Chr("in")>>, <<Chr("into")>>>>), Ws1,
          Optional(<<<<Chr("the"), Ws1>>>>), Quotes, Lazy(2), Quotes, End>>
    >>

\* 'generate_date', lines 253-266
GenerateDatePatterns ==
    <<
      \* (?:i )?generate\s+(?:a\s+)?date\s+["\']*(.+?)["\']*\s+(?:and\s+)?store\s+(?:it\s+)?as\s+["\']*(.+?)["\']*$
      <<Optional(<<<<Chr("i ")>>>>), Chr("generate"), Ws1, Optional(<<<<Chr("a"),
          Ws1>>>>), Chr("date"), Ws1, Quotes, Lazy(1), Quotes, Ws1,
          Optional(<<<<Chr("and"), Ws1>>>>), Chr("store"), Ws1, Optional(<<<<Chr("it"),
          Ws1>>>>), Chr("as"), Ws1, Quotes, Lazy(2), Quotes, End>>,
      \* (?:i )?(?:get|create)\s+(?:a\s+)?["\']*(.+?)["\']*\s+date\s+(?:and\s+)?store\s+(?:it\s+)?as\s+["\']*(.+?)["\']*$
      <<Optional(<<<<Chr("i ")>>>>), Either(<<<<Chr("get")>>, <<Chr("create")>>>>), Ws1,
          Optional(<<<<Chr("a"), Ws1>>>>), Quotes, Lazy(1), Quotes, Ws1, Chr("date"),
          Ws1, Optional(<<<<Chr("and"), Ws1>>>>), Chr("store"), Ws1,
          Optional(<<<<Chr("it"), Ws1>>>>), Chr("as"), Ws1, Quotes, Lazy(2), Quotes,
          End>>,
      \* (?:i )?store\s+["\']*(.+?)["\']*\s+as\s+["\']*(.+?)["\']*$
      <<Optional(<<<<Chr("i ")>>>>), Chr("store"), Ws1, Quotes, Lazy(1), Quotes, Ws1,
          Chr("as"), Ws1, Quotes, Lazy(2), Quotes, End>>,
      \* (?:i )?generate\s+(?:a\s+)?datetime\s+["\']*(.+?)["\']*\s+(?:and\s+)?store\s+(?:it\s+)?as\s+["\']*(.+?)["\']*$
      <<Optional(<<<<Chr("i ")>>>>), Chr("generate"), Ws1, Optional(<<<<Chr("a"),
          Ws1>>>>), Chr("datetime"), Ws1, Quotes, Lazy(1), Quotes, Ws1,
          Optional(<<<<Chr("and"), Ws1>>>>), Chr("store"), Ws1, Optional(<<<<Chr("it"),
          Ws1>>>>), Chr("as"), Ws1, Quotes, Lazy(2), Quotes, End>>,
      \* (?:i )?(?:get|create)\s+(?:a\s+)?["\']*(.+?)["\']*\s+datetime\s+(?:and\s+)?store\s+(?:it\s+)?as\s+["\']*(.+?)["\']*$
      <<Optional(<<<<Chr("i ")>>>>), Either(<<<<Chr("get")>>, <<Chr("create")>>>>), Ws1,
          Optional(<<<<Chr("a"), Ws1>>>>), Quotes, Lazy(1), Quotes, Ws1,
          Chr("datetime"), Ws1, Optional(<<<<Chr("and"), Ws1>>>>), Chr("store"), Ws1,
          Optional(<<<<Chr("it"), Ws1>>>>), Chr("as"), Ws1, Quotes, Lazy(2), Quotes,
          End>>
    >>

\* 'select_datetime', lines 269-281
SelectDatetimePatterns ==
    <<
      \* (?:i )?(?:select|choose|pick|enter)\s+datetime\s+["\']*(.+?)["\']*\s+(?:in|for)\s+(?:the\s+)?["\']*(.+?)["\']*(?:\s+field)?$
      <<Optional(<<<<Chr("i ")>>>>), Either(<<<<Chr("select")>>, <<Chr("choose")>>,
          <<Chr("pick")>>, <<Chr("enter")>>>>), Ws1, Chr("datetime"), Ws1, Quotes,
          Lazy(1), Quotes, Ws1, Either(<<<<Chr("in")>>, <<Chr("for")>>>>), Ws1,
          Optional(<<<<Chr("the"), Ws1>>>>), Quotes, Lazy(2), Quotes, Optional(<<<<Ws1,
          Chr("field")>>>>), End>>,
      \* (?:i )?(?:select|set)\s+["\']*(.+?)["\']*\s+(?:as\s+)?(?:the\s+)?datetime\s+(?:in|for)\s+["\']*(.+?)["\']*$
      <<Optional(<<<<Chr("i ")>>>>), Either(<<<<Chr("select")>>, <<Chr("set")>>>>), Ws1,
          Quotes, Lazy(1), Quotes, Ws1, Optional(<<<<Chr("as"), Ws1>>>>),
          Optional(<<<<Chr("the"), Ws1>>>>), Chr("datetime"), Ws1,
          Either(<<<<Chr("in")>>, <<Chr("for")>>>>), Ws1, Quotes, Lazy(2), Quotes,
          End>>,
      \* (?:i )?(?:enter|input|fill)\s+["\']*(.+?)["\']*\s+in\s+(?:the\s+)?["\']*(.+?)["\']*\s+datetime\s*(?:picker|field)?$
      <<Optional(<<<<Chr("i ")>>>>), Either(<<<<Chr("enter")>>, <<Chr("input")>>,
          <<Chr("fill")>>>>), Ws1, Quotes, Lazy(1), Quotes, Ws1, Chr("in"), Ws1,
          Optional(<<<<Chr("the"), Ws1>>>>), Quotes, Lazy(2), Quotes, Ws1,
          Chr("datetime"), Ws0, Optional(<<<<Chr("picker")>>, <<Chr("field")>>>>),
          End>>,
      \* (?:i )?(?:select|choose|pick|enter)\s+date\s+["\']*(.+?)["\']*\s+(?:in|for)\s+(?:the\s+)?["\']*(.+?)["\']*(?:\s+field)?$
      <<Optional(<<<<Chr("i ")>>>>), Either(<<<<Chr("select")>>, <<Chr("choose")>>,
          <<Chr("pick")>>, <<Chr("enter")>>>>), Ws1, Chr("date"), Ws1, Quotes, Lazy(1),
          Quotes, Ws1, Either(<<<<Chr("in")>>, <<Chr("for")>>>>), Ws1,
          Optional(<<<<Chr("the"), Ws1>>>>), Quotes, Lazy(2), Quotes, Optional(<<<<Ws1,
          Chr("field")>>>>), End>>,
      \* (?:i )?(?:enter|input|fill)\s+["\']*(.+?)["\']*\s+in\s+(?:the\s+)?["\']*(.+?)["\']*\s+date\s*(?:picker|field)?$
      <<Optional(<<<<Chr("i ")>>>>), Either(<<<<Chr("enter")>>, <<Chr("input")>>,
          <<Chr("fill")>>>>), Ws1, Quotes, Lazy(1), Quotes, Ws1, Chr("in"), Ws1,
          Optional(<<<<Chr("the"), Ws1>>>>), Quotes, Lazy(2), Quotes, Ws1, Chr("date"),
          Ws0, Optional(<<<<Chr("picker")>>, <<Chr("field")>>>>), End>>
    >>

\* 'select_date', lines 227-236
SelectDatePatterns ==
    <<
      \* (?:i )?(?:select|choose|pick|enter)\s+date\s+["\']*(.+?)["\']*\s+(?:in|for)\s+(?:the\s+)?["\']*(.+?)["\']*(?:\s+field)?$
      <<Optional(<<<<Chr("i ")>>>>), Either(<<<<Chr("select")>>, <<Chr("choose")>>,
          <<Chr("pick")>>, <<Chr("enter")>>>>), Ws1, Chr("date"), Ws1, Quotes, Lazy(1),
          Quotes, Ws1, Either(<<<<Chr("in")>>, <<Chr("for")>>>>), Ws1,
          Optional(<<<<Chr("the"), Ws1>>>>), Quotes, Lazy(2), Quotes, Optional(<<<<Ws1,
          Chr("field")>>>>), End>>,
      \* (?:i )?(?:select|set)\s+["\']*(.+?)["\']*\s+(?:as\s+)?(?:the\s+)?date\s+(?:in|for)\s+["\']*(.+?)["\']*$
      <<Optional(<<<<Chr("i ")>>>>), Either(<<<<Chr("select")>>, <<Chr("set")>>>>), Ws1,
          Quotes, Lazy(1), Quotes, Ws1, Optional(<<<<Chr("as"), Ws1>>>>),
          Optional(<<<<Chr("the"), Ws1>>>>), Chr("date"), Ws1, Either(<<<<Chr("in")>>,
          <<Chr("for")>>>>), Ws1, Quotes, Lazy(2), Quotes, End>>,
      \* (?:i )?(?:enter|input|fill)\s+["\']*(.+?)["\']*\s+in\s+(?:the\s+)?["\']*(.+?)["\']*\s+date\s*(?:picker|field)?$
      <<Optional(<<<<Chr("i ")>>>>), Either(<<<<Chr("enter")>>, <<Chr("input")>>,
          <<Chr("fill")>>>>), Ws1, Quotes, Lazy(1), Quotes, Ws1, Chr("in"), Ws1,
          Optional(<<<<Chr("the"), Ws1>>>>), Quotes, Lazy(2), Quotes, Ws1, Chr("date"),
          Ws0, Optional(<<<<Chr("picker")>>, <<Chr("field")>>>>), End>>,
      \* (?:the\s+)?["\']*(.+?)["\']*\s+date\s+(?:should\s+)?be\s+["\']*(.+?)["\']*$
      <<Optional(<<<<Chr("the"), Ws1>>>>), Quotes, Lazy(1), Quotes, Ws1, Chr("date"),
          Ws1, Optional(<<<<Chr("should"), Ws1>>>>), Chr("be"), Ws1, Quotes, Lazy(2),
          Quotes, End>>
    >>

\* 'verify_text', lines 135-143
VerifyTextPatterns ==
    <<
      \* (?:i )?(?:should\s+)?see\s+(?:the\s+)?(?:text\s+|message\s+)?["\']*(.+?)["\']*$
      <<Optional(<<<<Chr("i ")>>>>), Optional(<<<<Chr("should"), Ws1>>>>), Chr("see"),
          Ws1, Optional(<<<<Chr("the"), Ws1>>>>), Optional(<<<<Chr("text"), Ws1>>,
          <<Chr("message"), Ws1>>>>), Quotes, Lazy(1), Quotes, End>>,
      \* (?:the )?(?:page|screen)\s+(?:should\s+)?(?:contain|display|show)s?\s+(?:the\s+)?(?:text\s+|message\s+)?["\']*(.+?)["\']*$
      <<Optional(<<<<Chr("the ")>>>>), Either(<<<<Chr("page")>>, <<Chr("screen")>>>>),
          Ws1, Optional(<<<<Chr("should"), Ws1>>>>), Either(<<<<Chr("contain")>>,
          <<Chr("display")>>, <<Chr("show")>>>>), Optional(<<<<Chr("s")>>>>), Ws1,
          Optional(<<<<Chr("the"), Ws1>>>>), Optional(<<<<Chr("text"), Ws1>>,
          <<Chr("message"), Ws1>>>>), Quotes, Lazy(1), Quotes, End>>,
      \* (?:i )?(?:verify|check|validate)\s+(?:that\s+)?(?:the\s+)?(?:text\s+|message\s+)?["\']*(.+?)["\']*\s+is\s+(?:displayed|shown|visible)$
      <<Optional(<<<<Chr("i ")>>>>), Either(<<<<Chr("verify")>>, <<Chr("check")>>,
          <<Chr("validate")>>>>), Ws1, Optional(<<<<Chr("that"), Ws1>>>>),
          Optional(<<<<Chr("the"), Ws1>>>>), Optional(<<<<Chr("text"), Ws1>>,
          <<Chr("message"), Ws1>>>>), Quotes, Lazy(1), Quotes, Ws1, Chr("is"), Ws1,
          Either(<<<<Chr("displayed")>>, <<Chr("shown")>>, <<Chr("visible")>>>>), End>>
    >>

\* 'verify_element', lines 146-155
VerifyElementPatterns ==
    <<
      \* (?:i )?(?:should\s+)?see\s+(?:the\s+)?(?:element\s+|button\s+|link\s+|field\s+)?["\']*(.+?)["\']*\s+element$
      <<Optional(<<<<Chr("i ")>>>>), Optional(<<<<Chr("should"), Ws1>>>>), Chr("see"),
          Ws1, Optional(<<<<Chr("the"), Ws1>>>>), Optional(<<<<Chr("element"), Ws1>>,
          <<Chr("button"), Ws1>>, <<Chr("link"), Ws1>>, <<Chr("field"), Ws1>>>>),
          Quotes, Lazy(1), Quotes, Ws1, Chr("element"), End>>,
      \* (?:i )?(?:should\s+)?see\s+(?:the\s+)?["\']*(.+?)["\']*\s+(?:element|button|link|field)$
      <<Optional(<<<<Chr("i ")>>>>), Optional(<<<<Chr("should"), Ws1>>>>), Chr("see"),
          Ws1, Optional(<<<<Chr("the"), Ws1>>>>), Quotes, Lazy(1), Quotes, Ws1,
          Either(<<<<Chr("element")>>, <<Chr("button")>>, <<Chr("link")>>,
          <<Chr("field")>>>>), End>>,
      \* (?:the )?(?:element\s+|button\s+|link\s+|field\s+)?["\']*(.+?)["\']*\s+(?:should\s+)?(?:be|is)\s+(?:displayed|visible|shown)$
      <<Optional(<<<<Chr("the ")>>>>), Optional(<<<<Chr("element"), Ws1>>,
          <<Chr("button"), Ws1>>, <<Chr("link"), Ws1>>, <<Chr("field"), Ws1>>>>),
          Quotes, Lazy(1), Quotes, Ws1, Optional(<<<<Chr("should"), Ws1>>>>),
          Either(<<<<Chr("be")>>, <<Chr("is")>>>>), Ws1, Either(<<<<Chr("displayed")>>,
          <<Chr("visible")>>, <<Chr("shown")>>>>), End>>,
      \* (?:i )?(?:verify|check)\s+(?:that\s+)?(?:the\s+)?["\']*(.+?)["\']*\s+is\s+(?:displayed|visible|present)$
      <<Optional(<<<<Chr("i ")>>>>), Either(<<<<Chr("verify")>>, <<Chr("check")>>>>),
          Ws1, Optional(<<<<Chr("that"), Ws1>>>>), Optional(<<<<Chr("the"), Ws1>>>>),
          Quotes, Lazy(1), Quotes, Ws1, Chr("is"), Ws1, Either(<<<<Chr("displayed")>>,
          <<Chr("visible")>>, <<Chr("present")>>>>), End>>
    >>

\* 'verify_section_state', lines 206-214
VerifySectionStatePatterns ==
    <<
      \* (?:i )?(?:verify|check|validate)\s+(?:that\s+)?(?:the\s+)?["\']*(.+?)["\']*\s+(?:section|step|tab)\s+is\s+(enabled|disabled|active|inactive)$
      <<Optional(<<<<Chr("i ")>>>>), Either(<<<<Chr("verify")>>, <<Chr("check")>>,
          <<Chr("validate")>>>>), Ws1, Optional(<<<<Chr("that"), Ws1>>>>),
          Optional(<<<<Chr("the"), Ws1>>>>), Quotes, Lazy(1), Quotes, Ws1,
          Either(<<<<Chr("section")>>, <<Chr("step")>>, <<Chr("tab")>>>>), Ws1,
          Chr("is"), Ws1, Capture(2, <<<<Chr("enabled")>>, <<Chr("disabled")>>,
          <<Chr("active")>>, <<Chr("inactive")>>>>), End>>,
      \* (?:the\s+)?["\']*(.+?)["\']*\s+(?:section|step|tab)\s+(?:should\s+)?(?:be|is)\s+(enabled|disabled|active|inactive)$
      <<Optional(<<<<Chr("the"), Ws1>>>>), Quotes, Lazy(1), Quotes, Ws1,
          Either(<<<<Chr("section")>>, <<Chr("step")>>, <<Chr("tab")>>>>), Ws1,
          Optional(<<<<Chr("should"), Ws1>>>>), Either(<<<<Chr("be")>>,
          <<Chr("is")>>>>), Ws1, Capture(2, <<<<Chr("enabled")>>, <<Chr("disabled")>>,
          <<Chr("active")>>, <<Chr("inactive")>>>>), End>>,
      \* (?:i )?(?:should\s+)?see\s+(?:that\s+)?(?:the\s+)?["\']*(.+?)["\']*\s+(?:section|step|tab)\s+is\s+(enabled|disabled|active|inactive)$
      <<Optional(<<<<Chr("i ")>>>>), Optional(<<<<Chr("should"), Ws1>>>>), Chr("see"),
          Ws1, Optional(<<<<Chr("that"), Ws1>>>>), Optional(<<<<Chr("the"), Ws1>>>>),
          Quotes, Lazy(1), Quotes, Ws1, Either(<<<<Chr("section")>>, <<Chr("step")>>,
          <<Chr("tab")>>>>), Ws1, Chr("is"), Ws1, Capture(2, <<<<Chr("enabled")>>,
          <<Chr("disabled")>>, <<Chr("active")>>, <<Chr("inactive")>>>>), End>>
    >>

\* 'verify_sections_state', lines 216-224
VerifySectionsStatePatterns ==
    <<
      \* (?:i )?(?:verify|check|validate)\s+(?:the\s+)?(?:following\s+)?sections?\s+(?:states?|status)?:?$
      <<Optional(<<<<Chr("i ")>>>>), Either(<<<<Chr("verify")>>, <<Chr("check")>>,
          <<Chr("validate")>>>>), Ws1, Optional(<<<<Chr("the"), Ws1>>>>),
          Optional(<<<<Chr("following"), Ws1>>>>), Chr("section"),
          Optional(<<<<Chr("s")>>>>), Ws1, Optional(<<<<Chr("state"),
          Optional(<<<<Chr("s")>>>>)>>, <<Chr("status")>>>>),
          Optional(<<<<Chr(":")>>>>), End>>,
      \* (?:the\s+)?(?:following\s+)?sections?\s+(?:should\s+)?(?:have|be)\s+(?:the\s+)?(?:following\s+)?(?:states?|status)?:?$
      <<Optional(<<<<Chr("the"), Ws1>>>>), Optional(<<<<Chr("following"), Ws1>>>>),
          Chr("section"), Optional(<<<<Chr("s")>>>>), Ws1, Optional(<<<<Chr("should"),
          Ws1>>>>), Either(<<<<Chr("have")>>, <<Chr("be")>>>>), Ws1,
          Optional(<<<<Chr("the"), Ws1>>>>), Optional(<<<<Chr("following"), Ws1>>>>),
          Optional(<<<<Chr("state"), Optional(<<<<Chr("s")>>>>)>>, <<Chr("status")>>>>),
          Optional(<<<<Chr(":")>>>>), End>>,
      \* (?:i )?(?:should\s+)?see\s+(?:the\s+)?(?:following\s+)?sections?\s+(?:with\s+)?(?:states?|status)?:?$
      <<Optional(<<<<Chr("i ")>>>>), Optional(<<<<Chr("should"), Ws1>>>>), Chr("see"),
          Ws1, Optional(<<<<Chr("the"), Ws1>>>>), Optional(<<<<Chr("following"),
          Ws1>>>>), Chr("section"), Optional(<<<<Chr("s")>>>>), Ws1,
          Optional(<<<<Chr("with"), Ws1>>>>), Optional(<<<<Chr("state"),
          Optional(<<<<Chr("s")>>>>)>>, <<Chr("status")>>>>),
          Optional(<<<<Chr(":")>>>>), End>>
    >>

\* 'wait', lines 158-167
WaitPatterns ==
    <<
      \* (?:i )?wait\s+(?:for\s+)?(\d+)\s+(?:seconds?|secs?|milliseconds?|ms)$
      <<Optional(<<<<Chr("i ")>>>>), Chr("wait"), Ws1, Optional(<<<<Chr("for"),
          Ws1>>>>), Capture(1, <<<<Digits>>>>), Ws1, Either(<<<<Chr("second"),
          Optional(<<<<Chr("s")>>>>)>>, <<Chr("sec"), Optional(<<<<Chr("s")>>>>)>>,
          <<Chr("millisecond"), Optional(<<<<Chr("s")>>>>)>>, <<Chr("ms")>>>>), End>>,
      \* (?:i )?wait\s+(?:for|until)\s+(?:the\s+)?(?:element\s+|button\s+|link\s+)?["\']*(.+?)["\']*\s+(?:is|to\s+be)\s+(?:displayed|visible|shown)$
      <<Optional(<<<<Chr("i ")>>>>), Chr("wait"), Ws1, Either(<<<<Chr("for")>>,
          <<Chr("until")>>>>), Ws1, Optional(<<<<Chr("the"), Ws1>>>>),
          Optional(<<<<Chr("element"), Ws1>>, <<Chr("button"), Ws1>>, <<Chr("link"),
          Ws1>>>>), Quotes, Lazy(1), Quotes, Ws1, Either(<<<<Chr("is")>>, <<Chr("to"),
          Ws1, Chr("be")>>>>), Ws1, Either(<<<<Chr("displayed")>>, <<Chr("visible")>>,
          <<Chr("shown")>>>>), End>>,
      \* (?:i )?wait\s+for\s+text\s+["\']*(.+?)["\']*\s+to\s+(?:load|appear|be\s+visible)$
      <<Optional(<<<<Chr("i ")>>>>), Chr("wait"), Ws1, Chr("for"), Ws1, Chr("text"),
          Ws1, Quotes, Lazy(1), Quotes, Ws1, Chr("to"), Ws1, Either(<<<<Chr("load")>>,
          <<Chr("appear")>>, <<Chr("be"), Ws1, Chr("visible")>>>>), End>>,
      \* (?:i )?pause\s+(?:for\s+)?(\d+)\s+(?:seconds?|secs?)$
      <<Optional(<<<<Chr("i ")>>>>), Chr("pause"), Ws1, Optional(<<<<Chr("for"),
          Ws1>>>>), Capture(1, <<<<Digits>>>>), Ws1, Either(<<<<Chr("second"),
          Optional(<<<<Chr("s")>>>>)>>, <<Chr("sec"), Optional(<<<<Chr("s")>>>>)>>>>),
          End>>
    >>

\* 'search', lines 170-179
SearchPatterns ==
    <<
      \* (?:i )?search\s+(?:for\s+|with\s+)?(?:text\s+)?["\']*(.+?)["\']*$
      <<Optional(<<<<Chr("i ")>>>>), Chr("search"), Ws1, Optional(<<<<Chr("for"), Ws1>>,
          <<Chr("with"), Ws1>>>>), Optional(<<<<Chr("text"), Ws1>>>>), Quotes, Lazy(1),
          Quotes, End>>,
      \* (?:i )?search\s+(?:for\s+|with\s+)?["\']*(.+?)["\']*\s+in\s+(?:the\s+)?["\']*(.+?)["\']*(?:\s+field)?$
      <<Optional(<<<<Chr("i ")>>>>), Chr("search"), Ws1, Optional(<<<<Chr("for"), Ws1>>,
          <<Chr("with"), Ws1>>>>), Quotes, Lazy(1), Quotes, Ws1, Chr("in"), Ws1,
          Optional(<<<<Chr("the"), Ws1>>>>), Quotes, Lazy(2), Quotes, Optional(<<<<Ws1,
          Chr("field")>>>>), End>>,
      \* (?:i )?(?:enter|type)\s+["\']*(.+?)["\']*\s+in\s+(?:the\s+)?search\s+(?:box|field|bar)$
      <<Optional(<<<<Chr("i ")>>>>), Either(<<<<Chr("enter")>>, <<Chr("type")>>>>), Ws1,
          Quotes, Lazy(1), Quotes, Ws1, Chr("in"), Ws1, Optional(<<<<Chr("the"),
          Ws1>>>>), Chr("search"), Ws1, Either(<<<<Chr("box")>>, <<Chr("field")>>,
          <<Chr("bar")>>>>), End>>,
      \* (?:i )?search\s+in\s+(?:the\s+)?["\']*(.+?)["\']*\s+(?:field\s+)?(?:for|with)\s+["\']*(.+?)["\']*$
      <<Optional(<<<<Chr("i ")>>>>), Chr("search"), Ws1, Chr("in"), Ws1,
          Optional(<<<<Chr("the"), Ws1>>>>), Quotes, Lazy(1), Quotes, Ws1,
          Optional(<<<<Chr("field"), Ws1>>>>), Either(<<<<Chr("for")>>,
          <<Chr("with")>>>>), Ws1, Quotes, Lazy(2), Quotes, End>>
    >>

\* 'verify_table', lines 182-193
VerifyTablePatterns ==
    <<
      \* (?:i )?(?:verify|check|validate)\s+(?:that\s+)?(?:the\s+)?table\s+(?:data|contains|shows).*$
      <<Optional(<<<<Chr("i ")>>>>), Either(<<<<Chr("verify")>>, <<Chr("check")>>,
          <<Chr("validate")>>>>), Ws1, Optional(<<<<Chr("that"), Ws1>>>>),
          Optional(<<<<Chr("the"), Ws1>>>>), Chr("table"), Ws1,
          Either(<<<<Chr("data")>>, <<Chr("contains")>>, <<Chr("shows")>>>>), AnyText,
          End>>,
      \* (?:i )?(?:verify|check|validate)\s+(?:the\s+)?["\']*(.+?)["\']*\s+table\s+(?:data|contains|shows).*$
      <<Optional(<<<<Chr("i ")>>>>), Either(<<<<Chr("verify")>>, <<Chr("check")>>,
          <<Chr("validate")>>>>), Ws1, Optional(<<<<Chr("the"), Ws1>>>>), Quotes,
          Lazy(1), Quotes, Ws1, Chr("table"), Ws1, Either(<<<<Chr("data")>>,
          <<Chr("contains")>>, <<Chr("shows")>>>>), AnyText, End>>,
      \* (?:the\s+)?table\s+(?:should\s+)?(?:contain|show|display)s?.*$
      <<Optional(<<<<Chr("the"), Ws1>>>>), Chr("table"), Ws1,
          Optional(<<<<Chr("should"), Ws1>>>>), Either(<<<<Chr("contain")>>,
          <<Chr("show")>>, <<Chr("display")>>>>), Optional(<<<<Chr("s")>>>>), AnyText,
          End>>,
      \* (?:the\s+)?["\']*(.+?)["\']*\s+table\s+(?:should\s+)?(?:contain|show|display)s?.*$
      <<Optional(<<<<Chr("the"), Ws1>>>>), Quotes, Lazy(1), Quotes, Ws1, Chr("table"),
          Ws1, Optional(<<<<Chr("should"), Ws1>>>>), Either(<<<<Chr("contain")>>,
          <<Chr("show")>>, <<Chr("display")>>>>), Optional(<<<<Chr("s")>>>>), AnyText,
          End>>,
      \* (?:i )?(?:should\s+)?see\s+(?:the\s+)?following\s+(?:data\s+)?in\s+(?:the\s+)?table.*$
      <<Optional(<<<<Chr("i ")>>>>), Optional(<<<<Chr("should"), Ws1>>>>), Chr("see"),
          Ws1, Optional(<<<<Chr("the"), Ws1>>>>), Chr("following"), Ws1,
          Optional(<<<<Chr("data"), Ws1>>>>), Chr("in"), Ws1, Optional(<<<<Chr("the"),
          Ws1>>>>), Chr("table"), AnyText, End>>,
      \* (?:i )?validate\s+(?:the\s+)?table\s+(?:with\s+)?(?:the\s+)?following\s+(?:data|values).*$
      <<Optional(<<<<Chr("i ")>>>>), Chr("validate"), Ws1, Optional(<<<<Chr("the"),
          Ws1>>>>), Chr("table"), Ws1, Optional(<<<<Chr("with"), Ws1>>>>),
          Optional(<<<<Chr("the"), Ws1>>>>), Chr("following"), Ws1,
          Either(<<<<Chr("data")>>, <<Chr("values")>>>>), AnyText, End>>
    >>

\* 'screenshot', lines 196-203
ScreenshotPatterns ==
    <<
      \* (?:i )?(?:take|capture)\s+(?:a\s+)?screenshot(?:\s+(?:of|for)\s+["\']*(.+?)["\']*)?$
      <<Optional(<<<<Chr("i ")>>>>), Either(<<<<Chr("take")>>, <<Chr("capture")>>>>),
          Ws1, Optional(<<<<Chr("a"), Ws1>>>>), Chr("screenshot"), Optional(<<<<Ws1,
          Either(<<<<Chr("of")>>, <<Chr("for")>>>>), Ws1, Quotes, Lazy(1), Quotes>>>>),
          End>>,
      \* (?:i )?screenshot\s+(?:the\s+)?(?:page|screen)(?:\s+as\s+["\']*(.+?)["\']*)?$
      <<Optional(<<<<Chr("i ")>>>>), Chr("screenshot"), Ws1, Optional(<<<<Chr("the"),
          Ws1>>>>), Either(<<<<Chr("page")>>, <<Chr("screen")>>>>), Optional(<<<<Ws1,
          Chr("as"), Ws1, Quotes, Lazy(1), Quotes>>>>), End>>
    >>

\* 'call_api_with_data', lines 294-301
CallApiWithDataPatterns ==
    <<
      \* (?:i )?call (?:the )?["\'](.*?)["\'] (?:api|API) with:?$
      <<Optional(<<<<Chr("i ")>>>>), Chr("call "), Optional(<<<<Chr("the ")>>>>), Quote,
          Lazy0(1), Quote, Chr(" "), Either(<<<<Chr("api")>>, <<Chr("API")>>>>),
          Chr(" with"), Optional(<<<<Chr(":")>>>>), End>>,
      \* (?:i )?(?:make|send) (?:a )?(?:api|API) (?:call|request) (?:to )?["\'](.*?)["\'] with:?$
      <<Optional(<<<<Chr("i ")>>>>), Either(<<<<Chr("make")>>, <<Chr("send")>>>>),
          Chr(" "), Optional(<<<<Chr("a ")>>>>), Either(<<<<Chr("api")>>,
          <<Chr("API")>>>>), Chr(" "), Either(<<<<Chr("call")>>, <<Chr("request")>>>>),
          Chr(" "), Optional(<<<<Chr("to ")>>>>), Quote, Lazy0(1), Quote, Chr(" with"),
          Optional(<<<<Chr(":")>>>>), End>>
    >>

\* 'call_api', lines 284-291
CallApiPatterns ==
    <<
      \* (?:i )?call (?:the )?["\'](.*?)["\'] (?:api|API|endpoint)$
      <<Optional(<<<<Chr("i ")>>>>), Chr("call "), Optional(<<<<Chr("the ")>>>>), Quote,
          Lazy0(1), Quote, Chr(" "), Either(<<<<Chr("api")>>, <<Chr("API")>>,
          <<Chr("endpoint")>>>>), End>>,
      \* (?:i )?(?:make|send|execute) (?:a )?(?:api|API) (?:call|request) (?:to )?["\'](.*?)["\']$
      <<Optional(<<<<Chr("i ")>>>>), Either(<<<<Chr("make")>>, <<Chr("send")>>,
          <<Chr("execute")>>>>), Chr(" "), Optional(<<<<Chr("a ")>>>>),
          Either(<<<<Chr("api")>>, <<Chr("API")>>>>), Chr(" "),
          Either(<<<<Chr("call")>>, <<Chr("request")>>>>), Chr(" "),
          Optional(<<<<Chr("to ")>>>>), Quote, Lazy0(1), Quote, End>>
    >>

\* 'authenticate', lines 304-311
AuthenticatePatterns ==
    <<
      \* (?:i )?authenticate with (?:username )?["\'](.*?)["\'] and (?:password )?["\'](.*?)["\']$
      <<Optional(<<<<Chr("i ")>>>>), Chr("authenticate with "),
          Optional(<<<<Chr("username ")>>>>), Quote, Lazy0(1), Quote, Chr(" and "),
          Optional(<<<<Chr("password ")>>>>), Quote, Lazy0(2), Quote, End>>,
      \* (?:i )?login with (?:username )?["\'](.*?)["\'] and (?:password )?["\'](.*?)["\']$
      <<Optional(<<<<Chr("i ")>>>>), Chr("login with "),
          Optional(<<<<Chr("username ")>>>>), Quote, Lazy0(1), Quote, Chr(" and "),
          Optional(<<<<Chr("password ")>>>>), Quote, Lazy0(2), Quote, End>>
    >>

\* 'authenticate_with_env', lines 313-320
AuthenticateWithEnvPatterns ==
    <<
      \* (?:i )?authenticate using (?:the )?["\'](.*?)["\'] credentials$
      <<Optional(<<<<Chr("i ")>>>>), Chr("authenticate using "),
          Optional(<<<<Chr("the ")>>>>), Quote, Lazy0(1), Quote, Chr(" credentials"),
          End>>,
      \* (?:i )?login using (?:the )?["\'](.*?)["\'] credentials$
      <<Optional(<<<<Chr("i ")>>>>), Chr("login using "), Optional(<<<<Chr("the ")>>>>),
          Quote, Lazy0(1), Quote, Chr(" credentials"), End>>
    >>

\* 'authenticate_with_role', lines 415-423
AuthenticateWithRolePatterns ==
    <<
      \* (?:i )?authenticate as (?:a )?["\'](.*?)["\'](?:\s+role)?$
      <<Optional(<<<<Chr("i ")>>>>), Chr("authenticate as "),
          Optional(<<<<Chr("a ")>>>>), Quote, Lazy0(1), Quote, Optional(<<<<Ws1,
          Chr("role")>>>>), End>>,
      \* (?:i )?login as (?:a )?["\'](.*?)["\'](?:\s+role)?$
      <<Optional(<<<<Chr("i ")>>>>), Chr("login as "), Optional(<<<<Chr("a ")>>>>),
          Quote, Lazy0(1), Quote, Optional(<<<<Ws1, Chr("role")>>>>), End>>,
      \* (?:i )?(?:am|are) authenticated as (?:a )?["\'](.*?)["\']$
      <<Optional(<<<<Chr("i ")>>>>), Either(<<<<Chr("am")>>, <<Chr("are")>>>>),
          Chr(" authenticated as "), Optional(<<<<Chr("a ")>>>>), Quote, Lazy0(1),
          Quote, End>>
    >>

\* 'login_as_role', lines 425-432
LoginAsRolePatterns ==
    <<
      \* (?:i )?(?:am logged in|log in|login) as (?:a )?["\'](.*?)["\'](?:\s+(?:user|role))?$
      <<Optional(<<<<Chr("i ")>>>>), Either(<<<<Chr("am logged in")>>,
          <<Chr("log in")>>, <<Chr("login")>>>>), Chr(" as "),
          Optional(<<<<Chr("a ")>>>>), Quote, Lazy0(1), Quote, Optional(<<<<Ws1,
          Either(<<<<Chr("user")>>, <<Chr("role")>>>>)>>>>), End>>,
      \* (?:i )?sign in as (?:a )?["\'](.*?)["\'](?:\s+(?:user|role))?$
      <<Optional(<<<<Chr("i ")>>>>), Chr("sign in as "), Optional(<<<<Chr("a ")>>>>),
          Quote, Lazy0(1), Quote, Optional(<<<<Ws1, Either(<<<<Chr("user")>>,
          <<Chr("role")>>>>)>>>>), End>>
    >>

\* 'verify_api_status', lines 323-330
VerifyApiStatusPatterns ==
    <<
      \* (?:the )?(?:api|API) response status (?:should be|is) (\d+)$
      <<Optional(<<<<Chr("the ")>>>>), Either(<<<<Chr("api")>>, <<Chr("API")>>>>),
          Chr(" response status "), Either(<<<<Chr("should be")>>, <<Chr("is")>>>>),
          Chr(" "), Capture(1, <<<<Digits>>>>), End>>,
      \* (?:the )?(?:api|API) (?:should )?(?:return|respond with) (?:status )?(\d+)$
      <<Optional(<<<<Chr("the ")>>>>), Either(<<<<Chr("api")>>, <<Chr("API")>>>>),
          Chr(" "), Optional(<<<<Chr("should ")>>>>), Either(<<<<Chr("return")>>,
          <<Chr("respond with")>>>>), Chr(" "), Optional(<<<<Chr("status ")>>>>),
          Capture(1, <<<<Digits>>>>), End>>
    >>

\* 'verify_api_contains', lines 332-339
VerifyApiContainsPatterns ==
    <<
      \* (?:the )?(?:api|API) response (?:should )?contains? ["\'](.*?)["\']$
      <<Optional(<<<<Chr("the ")>>>>), Either(<<<<Chr("api")>>, <<Chr("API")>>>>),
          Chr(" response "), Optional(<<<<Chr("should ")>>>>), Chr("contain"),
          Optional(<<<<Chr("s")>>>>), Chr(" "), Quote, Lazy0(1), Quote, End>>,
      \* (?:the )?response (?:should )?(?:contain|include)s? ["\'](.*?)["\']$
      <<Optional(<<<<Chr("the ")>>>>), Chr("response "),
          Optional(<<<<Chr("should ")>>>>), Either(<<<<Chr("contain")>>,
          <<Chr("include")>>>>), Optional(<<<<Chr("s")>>>>), Chr(" "), Quote, Lazy0(1),
          Quote, End>>
    >>

\* 'verify_api_field', lines 341-348
VerifyApiFieldPatterns ==
    <<
      \* (?:the )?(?:api|API) response field ["\'](.*?)["\'] (?:should be|equals) ["\'](.*?)["\']$
      <<Optional(<<<<Chr("the ")>>>>), Either(<<<<Chr("api")>>, <<Chr("API")>>>>),
          Chr(" response field "), Quote, Lazy0(1), Quote, Chr(" "),
          Either(<<<<Chr("should be")>>, <<Chr("equals")>>>>), Chr(" "), Quote,
          Lazy0(2), Quote, End>>,
      \* (?:the )?field ["\'](.*?)["\'] (?:should be|equals) ["\'](.*?)["\']$
      <<Optional(<<<<Chr("the ")>>>>), Chr("field "), Quote, Lazy0(1), Quote, Chr(" "),
          Either(<<<<Chr("should be")>>, <<Chr("equals")>>>>), Chr(" "), Quote,
          Lazy0(2), Quote, End>>
    >>

\* 'verify_api_response_table', lines 350-357
VerifyApiResponseTablePatterns ==
    <<
      \* (?:i )?verify (?:the )?(?:api|API) response matches:?$
      <<Optional(<<<<Chr("i ")>>>>), Chr("verify "), Optional(<<<<Chr("the ")>>>>),
          Either(<<<<Chr("api")>>, <<Chr("API")>>>>), Chr(" response matches"),
          Optional(<<<<Chr(":")>>>>), End>>,
      \* (?:the )?(?:api|API) response (?:should )?match(?:es)?:?$
      <<Optional(<<<<Chr("the ")>>>>), Either(<<<<Chr("api")>>, <<Chr("API")>>>>),
          Chr(" response "), Optional(<<<<Chr("should ")>>>>), Chr("match"),
          Optional(<<<<Chr("es")>>>>), Optional(<<<<Chr(":")>>>>), End>>
    >>

\* 'verify_api_response_time', lines 359-366
VerifyApiResponseTimePatterns ==
    <<
      \* (?:the )?(?:api|API) response time should be less than (\d+(?:\.\d+)?) seconds?$
      <<Optional(<<<<Chr("the ")>>>>), Either(<<<<Chr("api")>>, <<Chr("API")>>>>),
          Chr(" response time should be less than "), Capture(1, <<<<Digits,
          Optional(<<<<Chr("."), Digits>>>>)>>>>), Chr(" second"),
          Optional(<<<<Chr("s")>>>>), End>>,
      \* (?:the )?response (?:should )?(?:take|complete) (?:less than|under) (\d+(?:\.\d+)?) seconds?$
      <<Optional(<<<<Chr("the ")>>>>), Chr("response "),
          Optional(<<<<Chr("should ")>>>>), Either(<<<<Chr("take")>>,
          <<Chr("complete")>>>>), Chr(" "), Either(<<<<Chr("less than")>>,
          <<Chr("under")>>>>), Chr(" "), Capture(1, <<<<Digits, Optional(<<<<Chr("."),
          Digits>>>>)>>>>), Chr(" second"), Optional(<<<<Chr("s")>>>>), End>>
    >>

\* 'store_api_field', lines 369-376
StoreApiFieldPatterns ==
    <<
      \* (?:i )?store (?:the )?(?:api|API) response field ["\'](.*?)["\'] as ["\'](.*?)["\']$
      <<Optional(<<<<Chr("i ")>>>>), Chr("store "), Optional(<<<<Chr("the ")>>>>),
          Either(<<<<Chr("api")>>, <<Chr("API")>>>>), Chr(" response field "), Quote,
          Lazy0(1), Quote, Chr(" as "), Quote, Lazy0(2), Quote, End>>,
      \* (?:i )?save (?:the )?field ["\'](.*?)["\'] as ["\'](.*?)["\']$
      <<Optional(<<<<Chr("i ")>>>>), Chr("save "), Optional(<<<<Chr("the ")>>>>),
          Chr("field "), Quote, Lazy0(1), Quote, Chr(" as "), Quote, Lazy0(2), Quote,
          End>>
    >>

\* 'store_api_response', lines 378-385
StoreApiResponsePatterns ==
    <<
      \* (?:i )?store (?:the )?(?:api|API) response as ["\'](.*?)["\']$
      <<Optional(<<<<Chr("i ")>>>>), Chr("store "), Optional(<<<<Chr("the ")>>>>),
          Either(<<<<Chr("api")>>, <<Chr("API")>>>>), Chr(" response as "), Quote,
          Lazy0(1), Quote, End>>,
      \* (?:i )?save (?:the )?response as ["\'](.*?)["\']$
      <<Optional(<<<<Chr("i ")>>>>), Chr("save "), Optional(<<<<Chr("the ")>>>>),
          Chr("response as "), Quote, Lazy0(1), Quote, End>>
    >>

\* 'use_stored_value', lines 387-393
UseStoredValuePatterns ==
    <<
      \* (?:i )?use (?:the )?stored ["\'](.*?)["\'] (?:value )?(?:as|for) ["\'](.*?)["\']$
      <<Optional(<<<<Chr("i ")>>>>), Chr("use "), Optional(<<<<Chr("the ")>>>>),
          Chr("stored "), Quote, Lazy0(1), Quote, Chr(" "),
          Optional(<<<<Chr("value ")>>>>), Either(<<<<Chr("as")>>, <<Chr("for")>>>>),
          Chr(" "), Quote, Lazy0(2), Quote, End>>
    >>

\* 'wait_api', lines 396-402
WaitApiPatterns ==
    <<
      \* (?:i )?wait (\d+(?:\.\d+)?) seconds?(?: (?:before|after) (?:the )?(?:api|API) call)?$
      <<Optional(<<<<Chr("i ")>>>>), Chr("wait "), Capture(1, <<<<Digits,
          Optional(<<<<Chr("."), Digits>>>>)>>>>), Chr(" second"),
          Optional(<<<<Chr("s")>>>>), Optional(<<<<Chr(" "), Either(<<<<Chr("before")>>,
          <<Chr("after")>>>>), Chr(" "), Optional(<<<<Chr("the ")>>>>),
          Either(<<<<Chr("api")>>, <<Chr("API")>>>>), Chr(" call")>>>>), End>>
    >>

\* 'upload_file', lines 405-412
UploadFilePatterns ==
    <<
      \* (?:i )?upload file ["\'](.*?)["\'] to ["\'](.*?)["\'] (?:api|API)$
      <<Optional(<<<<Chr("i ")>>>>), Chr("upload file "), Quote, Lazy0(1), Quote,
          Chr(" to "), Quote, Lazy0(2), Quote, Chr(" "), Either(<<<<Chr("api")>>,
          <<Chr("API")>>>>), End>>,
      \* (?:i )?upload ["\'](.*?)["\'] to ["\'](.*?)["\'] (?:api|API)$
      <<Optional(<<<<Chr("i ")>>>>), Chr("upload "), Quote, Lazy0(1), Quote,
          Chr(" to "), Quote, Lazy0(2), Quote, Chr(" "), Either(<<<<Chr("api")>>,
          <<Chr("API")>>>>), End>>
    >>

\* pattern_order, lines 602-611; patterns, action and params of each
\* bucket as lines 53-430 give them
Buckets ==
    <<
      [name |-> "navigate", patterns |-> NavigatePatterns,
       action |-> "navigate", params |-> <<"url">>],
      [name |-> "select_date_range", patterns |-> SelectDateRangePatterns,
       action |-> "select_date_range", params |-> <<"start_date", "end_date", "element">>],
      [name |-> "checkbox", patterns |-> CheckboxPatterns,
       action |-> "checkbox", params |-> <<"element", "state">>],
      [name |-> "select", patterns |-> SelectPatterns,
       action |-> "select", params |-> <<"option", "element">>],
      [name |-> "radio", patterns |-> RadioPatterns,
       action |-> "radio", params |-> <<"element">>],
      [name |-> "click", patterns |-> ClickPatterns,
       action |-> "click", params |-> <<"element">>],
      [name |-> "input", patterns |-> InputPatterns,
       action |-> "input", params |-> <<"value", "element">>],
      [name |-> "generate_date", patterns |-> GenerateDatePatterns,
       action |-> "generate_date", params |-> <<"date_spec", "variable_name">>],
      [name |-> "select_datetime", patterns |-> SelectDatetimePatterns,
       action |-> "select_datetime", params |-> <<"datetime", "element">>],
      [name |-> "select_date", patterns |-> SelectDatePatterns,
       action |-> "select_date", params |-> <<"date", "element">>],
      [name |-> "verify_text", patterns |-> VerifyTextPatterns,
       action |-> "verify_text", params |-> <<"text">>],
      [name |-> "verify_element", patterns |-> VerifyElementPatterns,
       action |-> "verify_element", params |-> <<"element">>],
      [name |-> "verify_section_state", patterns |-> VerifySectionStatePatterns,
       action |-> "verify_section_state", params |-> <<"section", "state">>],
      [name |-> "verify_sections_state", patterns |-> VerifySectionsStatePatterns,
       action |-> "verify_sections_state", params |-> <<>>],
      [name |-> "wait", patterns |-> WaitPatterns,
       action |-> "wait", params |-> <<"duration", "element", "text">>],
      [name |-> "search", patterns |-> SearchPatterns,
       action |-> "search", params |-> <<"query", "field">>],
      [name |-> "verify_table", patterns |-> VerifyTablePatterns,
       action |-> "verify_table", params |-> <<"table">>],
      [name |-> "screenshot", patterns |-> ScreenshotPatterns,
       action |-> "screenshot", params |-> <<"name">>],
      [name |-> "call_api_with_data", patterns |-> CallApiWithDataPatterns,
       action |-> "call_api_with_data", params |-> <<"api_name">>],
      [name |-> "call_api", patterns |-> CallApiPatterns,
       action |-> "call_api", params |-> <<"api_name">>],
      [name |-> "authenticate", patterns |-> AuthenticatePatterns,
       action |-> "authenticate", params |-> <<"username", "password">>],
      [name |-> "authenticate_with_env", patterns |-> AuthenticateWithEnvPatterns,
       action |-> "authenticate_with_env", params |-> <<"credential_key">>],
      [name |-> "authenticate_with_role", patterns |-> AuthenticateWithRolePatterns,
       action |-> "authenticate_with_role", params |-> <<"role">>],
      [name |-> "login_as_role", patterns |-> LoginAsRolePatterns,
       action |-> "login_as_role", params |-> <<"role">>],
      [name |-> "verify_api_status", patterns |-> VerifyApiStatusPatterns,
       action |-> "verify_api_status", params |-> <<"status_code">>],
      [name |-> "verify_api_contains", patterns |-> VerifyApiContainsPatterns,
       action |-> "verify_api_contains", params |-> <<"text">>],
      [name |-> "verify_api_field", patterns |-> VerifyApiFieldPatterns,
       action |-> "verify_api_field", params |-> <<"field_path", "expected_value">>],
      [name |-> "verify_api_response_table", patterns |-> VerifyApiResponseTablePatterns,
       action |-> "verify_api_response_table", params |-> <<>>],
      [name |-> "verify_api_response_time", patterns |-> VerifyApiResponseTimePatterns,
       action |-> "verify_api_response_time", params |-> <<"max_time">>],
      [name |-> "store_api_field", patterns |-> StoreApiFieldPatterns,
       action |-> "store_api_field", params |-> <<"field_path", "variable_name">>],
      [name |-> "store_api_response", patterns |-> StoreApiResponsePatterns,
       action |-> "store_api_response", params |-> <<"variable_name">>],
      [name |-> "use_stored_value", patterns |-> UseStoredValuePatterns,
       action |-> "use_stored_value", params |-> <<"stored_name", "param_name">>],
      [name |-> "wait_api", patterns |-> WaitApiPatterns,
       action |-> "wait_api", params |-> <<"duration">>],
      [name |-> "upload_file", patterns |-> UploadFilePatterns,
       action |-> "upload_file", params |-> <<"file_path", "api_name">>]
    >>

\* str.strip('"\'')
RECURSIVE StripQuotes(_)
StripQuotes(text) ==
    IF text = <<>> THEN <<>>
    ELSE IF Head(text) \in QuoteChars THEN StripQuotes(Tail(text))
    ELSE IF text[Len(text)] \in QuoteChars
    THEN StripQuotes(SubSeq(text, 1, Len(text) - 1))
    ELSE text

\* str.replace(word, '')
RECURSIVE Remove(_, _)
Remove(text, word) ==
    IF Len(text) < Len(word) THEN text
    ELSE IF SubSeq(text, 1, Len(word)) = word
    THEN Remove(SubSeq(text, Len(word) + 1, Len(text)), word)
    ELSE <<Head(text)>> \o Remove(Tail(text), word)

\* lines 622-624: the groups that matched something, by position, under
\* the names of the bucket's params
Params(bucket, groups) ==
    LET positions == {k \in DOMAIN bucket.params :
                          /\ k \in GroupNumbers
                          /\ groups[k].set
                          /\ groups[k].text # <<>>}
    IN [param_name \in {bucket.params[k] : k \in positions} |->
           StripQuotes(groups[CHOOSE k \in positions :
                                  bucket.params[k] = param_name].text)]

\* lines 636-642: the state of a checkbox that the pattern did not capture
DefaultState(text) ==
    IF \E word \in {"uncheck", "untick", "unmark", "deselect", "disable"} :
           Contains(Spell(word), LowerCase(text))
    THEN Spell("unchecked") ELSE Spell("checked")

WithState(bucket, params, text) ==
    IF bucket.name = "checkbox" /\ "state" \notin DOMAIN params
    THEN [param_name \in DOMAIN params \cup {"state"} |->
             IF param_name = "state" THEN DefaultState(text)
             ELSE params[param_name]]
    ELSE params

\* re.findall(r'["\']([^"\']+)["\']', text) from position i on
RECURSIVE QuotedStrings(_, _)
QuotedStrings(text, i) ==
    LET quotes == {p \in i..Len(text) : text[p] \in QuoteChars}
        opening == CHOOSE p \in quotes : \A other \in quotes : p <= other
        later == {p \in quotes : p > opening}
        closing == CHOOSE p \in later : \A other \in later : p <= other
    IN IF quotes = {} \/ later = {} THEN <<>>
       ELSE IF closing > opening + 1
       THEN <<SubSeq(text, opening + 1, closing - 1)>>
                \o QuotedStrings(text, closing + 1)
       ELSE QuotedStrings(text, opening + 1)

\* any(word in step_lower for word in words)
AnyWordIn(words, step_lower) ==
    \E word \in words : Contains(Spell(word), step_lower)

\* step_text[step_lower.rfind(' in ') + 4:].strip()
AfterLastIn(text) ==
    LET sub == Spell(" in ")
        found == {n \in 1..(Len(text) - Len(sub) + 1) :
                     SubSeq(LowerCase(text), n, n + Len(sub) - 1) = sub}
        in_pos == CHOOSE n \in found : \A other \in found : other <= n
    IN Strip(SubSeq(text, in_pos + Len(sub), Len(text)))

Fallback(action, params) == [action |-> action, params |-> params, force_ai |-> FALSE]

\* _fallback_parse, lines 649-694: the result has no 'force_ai'
FallbackParse(text) ==
    LET quoted_strings == QuotedStrings(text, 1)
        step_lower == LowerCase(text)
        first_or(default) ==
            IF quoted_strings # <<>> THEN quoted_strings[1] ELSE default
    IN IF /\ AnyWordIn({"select", "choose", "pick"}, step_lower)
          /\ Contains(Spell(" in "), step_lower)
       THEN IF Len(quoted_strings) >= 1
            THEN Fallback("select", ("option" :> quoted_strings[1]
                                     @@ "element" :> AfterLastIn(text)))
            ELSE Fallback("select", ("option" :> <<>> @@ "element" :> text))
       ELSE IF /\ AnyWordIn({"select", "choose", "pick"}, step_lower)
               /\ Contains(Spell(" from "), step_lower)
       THEN IF Len(quoted_strings) >= 2
            THEN Fallback("select", ("option" :> quoted_strings[1]
                                     @@ "element" :> quoted_strings[2]))
            ELSE Fallback("select", ("option" :> first_or(<<>>)
                                     @@ "element" :> text))
       ELSE IF AnyWordIn({"click", "press", "tap"}, step_lower)
       THEN Fallback("click", ("element" :> first_or(text)))
       ELSE IF AnyWordIn({"enter", "type", "input", "fill"}, step_lower)
       THEN IF Len(quoted_strings) >= 2
            THEN Fallback("input", ("value" :> quoted_strings[1]
                                    @@ "element" :> quoted_strings[2]))
            ELSE Fallback("input", ("value" :> first_or(<<>>) @@ "element" :> text))
       ELSE IF AnyWordIn({"search"}, step_lower)
       THEN Fallback("search", ("query" :> first_or(text)))
       ELSE IF AnyWordIn({"see", "verify", "check", "should"}, step_lower)
       THEN Fallback("verify_text", ("text" :> first_or(text)))
       ELSE IF AnyWordIn({"navigate", "go", "open", "visit"}, step_lower)
       THEN Fallback("navigate", ("url" :> first_or(text)))
       ELSE IF AnyWordIn({"wait"}, step_lower)
       THEN Fallback("wait", ("text" :> first_or(text)))
       ELSE IF AnyWordIn({"table", "verify table", "validate table"}, step_lower)
       THEN IF quoted_strings # <<>>
            THEN Fallback("verify_table", ("table" :> quoted_strings[1]))
            ELSE Fallback("verify_table", [param_name \in {} |-> <<>>])
       ELSE Fallback("unknown", ("text" :> text))

\* lines 615-617: the first pattern of the bucket that matches
RECURSIVE FirstPattern(_, _, _)
FirstPattern(patterns, p, text) ==
    IF p > Len(patterns) THEN Fails
    ELSE OrElse(ReMatch(patterns[p], text, 1, NoGroups),
                FirstPattern(patterns, p + 1, text))

\* lines 613-647: the first bucket that matches, in pattern_order, or the
\* fallback
RECURSIVE FirstBucket(_, _, _)
FirstBucket(b, text, force_ai) ==
    IF b > Len(Buckets) THEN FallbackParse(text)
    ELSE LET match == FirstPattern(Buckets[b].patterns, 1, text)
         IN IF match.matched
            THEN [action |-> Buckets[b].action,
                  params |-> WithState(Buckets[b],
                                       Params(Buckets[b], match.groups), text),
                  force_ai |-> force_ai]
            ELSE FirstBucket(b + 1, text, force_ai)

\* _parse_step_text, lines 585-647; force_ai is params['force_ai']
ParseStepText(text) ==
    LET original_step_text == Strip(text)
        force_ai == Contains(Spell("[force ai]"), LowerCase(original_step_text))
        stripped ==
            IF force_ai
            THEN Strip(Remove(Remove(Remove(original_step_text,
                                            Spell("[force ai]")),
                                     Spell("[FORCE AI]")),
                              Spell("[Force AI]")))
            ELSE original_step_text
    IN FirstBucket(1, stripped, force_ai)

\* ---- the step texts ----
Options ==
    {"Option A", "Made from wood", "B", "date range", "Save as"}
Elements ==
    {"Country", "B list", "email", "log in box"}
ElementNames ==
    {"Login", "Save button", "radio", "Remember me checkbox", "on", "Sign in here",
     "link", "the menu"}
TypedValues ==
    {"john@example.com", "Sign in here", "x", "42", "Save as"}

\* I select "<O>" from the "<E>" dropdown
SelectForm(first, second) ==
    Text(<<"I select ", "\"", first, "\"", " from the ", "\"", second, "\"", " dropdown">>)
\* I click the "<X>" button
ClickForm(first) ==
    Text(<<"I click the ", "\"", first, "\"", " button">>)
\* I enter "<V>" in the "<E>" field
InputForm(first, second) ==
    Text(<<"I enter ", "\"", first, "\"", " in the ", "\"", second, "\"", " field">>)
\* I wait for the "<X>" button to be visible
WaitElementForm(first) ==
    Text(<<"I wait for the ", "\"", first, "\"", " button to be visible">>)
\* I wait for text "<X>" to appear
WaitTextForm(first) ==
    Text(<<"I wait for text ", "\"", first, "\"", " to appear">>)
\* I wait <N> seconds
WaitSecondsForm(first) ==
    Text(<<"I wait ", first, " seconds">>)
\* I store the API response field "<P>" as "<V>"
StoreFieldForm(first, second) ==
    Text(<<"I store the API response field ", "\"", first, "\"", " as ", "\"", second, "\"">>)
\* I store the API response as "<V>"
StoreResponseForm(first) ==
    Text(<<"I store the API response as ", "\"", first, "\"">>)
\* <step> <marker>: a step of another kind followed by a force-AI marker
MarkedForm(first, second) ==
    Text(<<first, " ", second>>)

WaitedFor ==
    {"Save", "Welcome back"}
Durations ==
    {"5", "30"}
FieldPaths ==
    {"data.id", "token"}
VariableNames ==
    {"user_id", "t"}
MarkedSteps ==
    {"I click the \"Login\" button", "I enter \"x\" in the \"email\" field",
     "I hover over \"Menu\"", "I should see \"Welcome\""}
Markers ==
    {"[force ai]", "[FORCE AI]", "[Force AI]", "[Force Ai]"}

\* texts of other forms, as the pieces they are written from
OtherTexts ==
    {<<"I open the page home">>,
     <<"I am on the login page">>,
     <<"I select ", "\"", "B", "\"", " checkbox">>,
     <<"I uncheck the ", "\"", "B", "\"", " checkbox">>,
     <<"the ", "\"", "B", "\"", " checkbox should be unchecked">>,
     <<"I select ", "\"", "B", "\"", " radio button">>,
     <<"I select date range ", "\"", "B", "\"", " to ", "\"", "x", "\"", " in the ", "\"", "email", "\"", " field">>,
     <<"I select ", "\"", "B", "\"", " in Country">>,
     <<"the user clicks on ", "\"", "Login", "\"">>,
     <<"I press the ", "\"", "Login", "\"", " button">>,
     <<"I fill the ", "\"", "email", "\"", " field with ", "\"", "x", "\"">>,
     <<"I enter ", "\"", "x", "\"", " in the ", "\"", "email", "\"", " field [force ai]">>,
     <<"I CLICK the ", "\"", "Login", "\"", " button [FORCE AI]">>,
     <<" ", "I click the ", "\"", "Login", "\"", " button", " ">>,
     <<"I should see ", "\"", "Welcome", "\"">>}

Written(form, first, second, text) ==
    [form |-> form, first |-> first, second |-> second, text |-> text]

StepTexts ==
    {Written("select", o, e, SelectForm(o, e)) : o \in Options, e \in Elements}
    \cup {Written("click", x, "", ClickForm(x)) : x \in ElementNames}
    \cup {Written("input", v, e, InputForm(v, e)) : v \in TypedValues, e \in Elements}
    \cup {Written("wait_element", x, "", WaitElementForm(x)) : x \in WaitedFor}
    \cup {Written("wait_text", x, "", WaitTextForm(x)) : x \in WaitedFor}
    \cup {Written("wait_seconds", n, "", WaitSecondsForm(n)) : n \in Durations}
    \cup {Written("store_field", p, v, StoreFieldForm(p, v)) :
              p \in FieldPaths, v \in VariableNames}
    \cup {Written("store_response", v, "", StoreResponseForm(v)) : v \in VariableNames}
    \cup {Written("marked", step, marker, MarkedForm(step, marker)) :
              step \in MarkedSteps, marker \in Markers}
    \cup {Written("other", "", "", Text(pieces)) : pieces \in OtherTexts}

NotClassified == [action |-> "none", params |-> [param_name \in {} |-> <<>>],
                  force_ai |-> FALSE]

InitClassify ==
    /\ NoRun
    /\ NoCacheUse
    /\ NoConfigUse
    /\ NoResolveUse
    /\ NoApiUse
    /\ NoTableUse
    /\ NoParserUse
    /\ NoStepUse
    /\ NoApiStepUse
    /\ NoFinderUse
    /\ step_text \in StepTexts
    /\ classified = NotClassified

Classify ==
    /\ classified = NotClassified
    /\ classified' = ParseStepText(step_text.text)
    /\ UNCHANGED <<step_text, notClassifyVars>>

NextClassify == Classify

SpecClassify == InitClassify /\ [][NextClassify]_vars

\* the step was written in the given form and _parse_step_text has returned
Parsed(form) == step_text.form = form /\ classified.action # "none"

\* C14: a text of the form 'I select "<O>" from the "<E>" dropdown' is
\* classified as select with option O and element E, never as click or
\* input.
C14_SelectFormGivesOptionAndElement ==
    Parsed("select") =>
        /\ classified.action = "select"
        /\ classified.params = ("option" :> Spell(step_text.first)
                                @@ "element" :> Spell(step_text.second))

\* C15: a text of the form 'I click the "<X>" button', X an element name
\* that is not empty and holds no quote character, is classified as click
\* with element X, the quotes and the word 'button' removed.
C15_ClickFormGivesElement ==
    Parsed("click") =>
        /\ classified.action = "click"
        /\ classified.params = ("element" :> Spell(step_text.first))

\* a click step whose element name itself ends in the word 'button' has
\* been classified
C15_Witness ==
    /\ Parsed("click")
    /\ step_text.first = "Save button"
    /\ classified.action = "click"

\* C16: a text of the form 'I enter "<V>" in the "<E>" field' is classified
\* as input with value V and element E, the quotes and the word 'field'
\* removed.
C16_InputFormGivesValueAndElement ==
    Parsed("input") =>
        /\ classified.action = "input"
        /\ classified.params = ("value" :> Spell(step_text.first)
                                @@ "element" :> Spell(step_text.second))

\* '[force ai]' in text.lower()
HasMarker(text) == Contains(Spell("[force ai]"), LowerCase(text))

\* C24: a step text that holds the [force ai] marker in any letter case is
\* classified with force_ai true and with the marker removed, so that no
\* returned parameter holds it, whether a bucket or the fallback parse
\* produced the result.
C24_MarkerRemovedAndFlagSet ==
    (classified.action # "none" /\ HasMarker(step_text.text)) =>
        /\ classified.force_ai
        /\ \A param_name \in DOMAIN classified.params :
               ~HasMarker(classified.params[param_name])

\* C28: 'I wait for the "X" button to be visible' is classified as wait
\* with element X, 'I wait for text "X" to appear' as wait with text X,
\* and 'I wait N seconds' as wait with duration N.
C28_WaitModesFromParsedSteps ==
    /\ Parsed("wait_element") =>
           /\ classified.action = "wait"
           /\ classified.params = ("element" :> Spell(step_text.first))
    /\ Parsed("wait_text") =>
           /\ classified.action = "wait"
           /\ classified.params = ("text" :> Spell(step_text.first))
    /\ Parsed("wait_seconds") =>
           /\ classified.action = "wait"
           /\ classified.params = ("duration" :> Spell(step_text.first))

\* the numeric wait reaches the handler with its duration
NumericWaitGivesDuration ==
    Parsed("wait_seconds") =>
        /\ classified.action = "wait"
        /\ classified.params = ("duration" :> Spell(step_text.first))

\* C29: 'I store the API response field "<P>" as "<V>"' is classified as
\* store_api_field with field_path P and variable_name V, and 'I store the
\* API response as "<V>"' as store_api_response with variable_name V.
C29_StoreFormsReachTheirBuckets ==
    /\ Parsed("store_field") =>
           /\ classified.action = "store_api_field"
           /\ classified.params = ("field_path" :> Spell(step_text.first)
                                   @@ "variable_name" :> Spell(step_text.second))
    /\ Parsed("store_response") =>
           /\ classified.action = "store_api_response"
           /\ classified.params = ("variable_name" :> Spell(step_text.first))

\* both forms are taken by the third pattern of 'generate_date'
StoreFormsTakenByGenerateDate ==
    (Parsed("store_field") \/ Parsed("store_response")) =>
        classified.action = "generate_date"

\* C26: with parallel > 1, the page handed to the StepExecutor of a call
\* that is still executing its steps has not been closed by the finally
\* block of another call.
C26_EachScenarioOwnsItsPage ==
    parallel > 1 =>
        \A i \in Items :
            pc[i] \in {"background", "step"} => ~IsClosed("page", page[i])

\* in sequential mode the page of the running call is open
PageOpenInSequentialMode ==
    parallel = 1 =>
        \A i \in Items :
            pc[i] \in {"background", "step"} => ~IsClosed("page", page[i])

(***************************************************************************)
(* Expiry at the writes of the CacheManager (SpecCache).                   *)
(***************************************************************************)
\* the entries of the cache of manager m that are older than the ttl
ExpiredInMemory(m) == {k \in DOMAIN cm[m].cache : Expired(cm[m].cache[k], now)}

\* the entries of the cache file of manager m's project that are older than
\* the ttl; a project without a file, or with a file cut short, has none
ExpiredInFile(m) ==
    LET project_name == cm[m].project_name
    IN IF /\ ~Falsy(project_name)
          /\ project_name \in DOMAIN files
          /\ files[project_name].ok
       THEN {k \in DOMAIN files[project_name].doc :
                 Expired(files[project_name].doc[k], now)}
       ELSE {}

\* C19: when set_project or save_cache returns, neither the cache in memory
\* nor the cache file holds an entry whose age exceeds the ttl.
C19_NoExpiredEntryAfterWrite ==
    lastOp.op \in {"set_project", "save_cache"} =>
        /\ ExpiredInMemory(lastOp.m) = {}
        /\ ExpiredInFile(lastOp.m) = {}

\* what does hold: at the return of a set_project that found a cache file
\* to load, no entry older than the ttl is left
LoadLeavesNoExpiredEntry ==
    (/\ lastOp.op = "set_project"
     /\ ~Falsy(cm[lastOp.m].project_name)
     /\ cm[lastOp.m].project_name \in DOMAIN files)
    => (ExpiredInMemory(lastOp.m) = {} /\ ExpiredInFile(lastOp.m) = {})

(***************************************************************************)
(* StepExecutor.execute_step together with _wait_after_action              *)
(* (src/executor/step_executor.py, lines 149-185 and 205-215).  The wait   *)
(* is read from the executor's configuration, a plain YAML map that        *)
(* nothing validates; waits are counted in tenths of a second.             *)
(***************************************************************************)
MaxStepCalls == 2               \* execute_step calls in one behaviour
DefaultWait == 5                \* line 209: 0.5 s

\* the values a YAML file can give a wait: a number, or something else
\* (a text such as "1s", or nothing)
Seconds(n) == [number |-> TRUE, n |-> n]
NotANumber == [number |-> FALSE, n |-> 0]
WaitValues == {Seconds(0), Seconds(10), NotANumber}

\* config.get('wait_after_actions'): the key is absent, present without a
\* value (None), or a map from 'default' and action names to waits
WaitKeys == {"default", "click"}
AbsentKey == [kind |-> "absent", map |-> EmptyDict]
NullValue == [kind |-> "null", map |-> EmptyDict]
WaitMap(map) == [kind |-> "map", map |-> map]
WaitConfigs ==
    {AbsentKey, NullValue}
    \cup {WaitMap(map) : map \in UNION {[keys -> WaitValues] : keys \in SUBSET WaitKeys}}

Waited(n) == [raised |-> None, slept |-> n]
WaitRaised(message) == [raised |-> message, slept |-> 0]
NoWait == Waited(0)

\* _wait_after_action, lines 205-215
WaitAfterAction(wait_config, action) ==
    IF wait_config.kind = "null"
    THEN WaitRaised("'NoneType' object has no attribute 'get'")
    ELSE LET default_wait ==
                 IF "default" \in DOMAIN wait_config.map
                 THEN wait_config.map["default"] ELSE Seconds(DefaultWait)
             action_specific_wait ==
                 IF action \in DOMAIN wait_config.map
                 THEN wait_config.map[action] ELSE default_wait
         IN IF ~action_specific_wait.number
            THEN WaitRaised("'>' not supported")
            ELSE IF action_specific_wait.n > 0
            THEN Waited(action_specific_wait.n)
            ELSE NoWait

\* execute_step, lines 149-185, the wait included: the wait runs inside the
\* try, after a handler that returned, and what it raises is caught by the
\* same except clause as what the handler raises.  ExecuteStep above is
\* this with a wait that does not raise.
ExecuteStepAndWait(wait_config, action, hres, shot) ==
    LET wait == IF action \in Handlers /\ hres = "returned"
                THEN WaitAfterAction(wait_config, action)
                ELSE NoWait
    IN [wait |-> wait,
        result |-> IF wait.raised # None
                   THEN [status |-> "failed", action |-> action,
                         error |-> <<"WaitError", wait.raised>>,
                         screenshot |-> shot]
                   ELSE ExecuteStep(action, hres, shot)]

\* one call of execute_step
ExecuteStepCall(action, hres, shot) ==
    LET done == ExecuteStepAndWait(wait_after_actions, action, hres, shot)
    IN /\ Len(executed) < MaxStepCalls
       /\ executed' = Append(executed,
                             [action |-> action, handler |-> hres, shot |-> shot,
                              wait |-> done.wait, result |-> done.result])
       /\ UNCHANGED <<wait_after_actions, notStepVars>>

InitStep ==
    /\ NoRun
    /\ NoCacheUse
    /\ NoConfigUse
    /\ NoResolveUse
    /\ NoApiUse
    /\ NoTableUse
    /\ NoParserUse
    /\ NoClassifyUse
    /\ NoApiStepUse
    /\ NoFinderUse
    /\ wait_after_actions \in WaitConfigs
    /\ executed = <<>>

NextStep ==
    \E action \in StepActions, hres \in HandlerOutcomes, shot \in ShotOutcomes :
        ExecuteStepCall(action, hres, shot)

SpecStep == InitStep /\ [][NextStep]_vars

\* C18: execute_step returns 'failed' with 'Unknown action: <name>' when
\* the action has no handler, 'failed' with the exception's text and the
\* best-effort screenshot when the handler raises, and 'passed' otherwise,
\* that is whenever the handler returned; the wait is applied only after a
\* handler that returned.
C18_StatusFollowsHandler ==
    \A n \in DOMAIN executed :
        LET step == executed[n]
        IN /\ step.action \notin Handlers =>
                  /\ step.result.status = "failed"
                  /\ step.result.error = <<"Unknown action", step.action>>
                  /\ step.wait = NoWait
           /\ (step.action \in Handlers /\ step.handler = "raised") =>
                  /\ step.result.status = "failed"
                  /\ step.result.error = <<"HandlerError", step.action>>
                  /\ step.result.screenshot = step.shot
                  /\ step.wait = NoWait
           /\ (step.action \in Handlers /\ step.handler = "returned") =>
                  step.result.status = "passed"

\* what does hold: the same with 'passed' promised only when the wait did
\* not raise
StatusFollowsHandlerAndWait ==
    \A n \in DOMAIN executed :
        LET step == executed[n]
        IN /\ step.action \notin Handlers =>
                  /\ step.result.status = "failed"
                  /\ step.result.error = <<"Unknown action", step.action>>
                  /\ step.wait = NoWait
           /\ (step.action \in Handlers /\ step.handler = "raised") =>
                  /\ step.result.status = "failed"
                  /\ step.result.error = <<"HandlerError", step.action>>
                  /\ step.result.screenshot = step.shot
                  /\ step.wait = NoWait
           /\ (step.action \in Handlers /\ step.handler = "returned") =>
                  step.result.status = "passed" <=> step.wait.raised = None

(***************************************************************************)
(* The examples of a scenario (SpecParser).  A Scenario line stands for a  *)
(* Scenario Outline line as well: line 504 takes both the same way.        *)
(***************************************************************************)
\* the rows of the examples table of the block opened at line n: the table
\* rows that follow the last Examples line of the block; -1 when the block
\* has no Examples line
TableRows(n) ==
    LET tables == {k \in LinesOf("examples") : BlockOf(k) = n}
        last == CHOOSE k \in tables : \A j \in tables : j <= k
    IN IF tables = {} THEN -1
       ELSE Cardinality({k \in LinesOf("row") : k > last /\ BlockOf(k) = n})

\* C23: after parsing, a scenario followed by an Examples table of a header
\* row and data rows holds examples with one row-map per data row, wherever
\* the block stands in the file, and a scenario without an Examples table
\* holds none.
C23_ExamplesOfEveryOutline ==
    parsed =>
        \A k \in DOMAIN feature.scenarios :
            LET s == feature.scenarios[k]
                rows == TableRows(s.line_number)
            IN /\ rows >= 2 => s.examples = rows - 1
               /\ rows = -1 => s.examples = -1

\* what does hold: the same of the last block of the file
ExamplesOfLastScenario ==
    (parsed /\ current_scenario.kind = "scenario"
            /\ feature.scenarios # <<>>) =>
        LET s == feature.scenarios[Len(feature.scenarios)]
            rows == TableRows(s.line_number)
        IN /\ rows >= 2 => s.examples = rows - 1
           /\ rows = -1 => s.examples = -1

(***************************************************************************)
(* The API steps of one StepExecutor (src/executor/step_executor.py, lines *)
(* 21-39, 149-185, 2708-2790, 2951-3012, 3040-3075) on the APIExecutor it  *)
(* built (src/executor/api_executor.py, lines 25-66, 122-352), and the end *)
(* of the _execute_scenario call that owns it (test_executor.py 123-134).  *)
(* The definitions of the API catalogue hold no placeholder, no auth, no   *)
(* extraction and no validation; the executor's config holds no            *)
(* wait_after_actions, so a passed step waits the default time.            *)
(***************************************************************************)
MaxApiSteps == 3               \* execute_step calls on one StepExecutor

Catalogue == {"get_user", "login", "upload"}   \* the names _get_api_config finds
CalledApis == {"get_user", "nope"}
UploadFiles == {"there.png", "missing.png"}
ExistingFiles == {"there.png"}
ApiParams == {<<>>, <<<<"id", "7">>>>}         \* the row of a data table, as pairs
Credentials == {<<"bob", "pw">>}
JsonPaths == {"id", "name"}
StoreAs == {"u"}
UseNames == {"username", "id", "u"}

\* what the API answers when a request reaches it
DictBody == [type |-> "dict", id |-> "7"]       \* {"id": "7"}
StrBody == [type |-> "str", id |-> "None"]      \* a body that is no JSON
NoBody == [type |-> "NoneType", id |-> "None"]
Answers == {[status |-> 200, body |-> DictBody], [status |-> 200, body |-> StrBody],
            [status |-> 401, body |-> DictBody]}
NoAnswer == [status |-> 0, body |-> NoBody]

\* StepExecutor.last_api_response: None, or the dict execute_api returned
NoResponse == [recorded |-> FALSE, status |-> 0, body |-> NoBody]
ResponseOf(answer) == [recorded |-> TRUE, status |-> answer.status, body |-> answer.body]

\* a body as a value of the context
BodyValue(body) == IF body.type = "dict" THEN "{'id': '7'}" ELSE "text"

\* step_executor.py 27-31 and api_executor.py 25-42: no APIExecutor when
\* api_config_path does not exist; a new one has no session, an empty
\* context and a reporter without results
NoApiExecutor ==
    [built |-> FALSE, session |-> "None", context |-> EmptyDict, test_results |-> 0,
     reports |-> 0]
NewApiExecutor == [NoApiExecutor EXCEPT !.built = TRUE]

\* store_value, api_executor.py 59-62
Stored(ex, key, value) == [ex EXCEPT !.context = (key :> value) @@ @]

\* for key, value in kwargs.items(): self.store_value(key, value)
RECURSIVE StoredAll(_, _)
StoredAll(ex, kwargs) ==
    IF kwargs = <<>> THEN ex
    ELSE StoredAll(Stored(ex, Head(kwargs)[1], Head(kwargs)[2]), Tail(kwargs))

\* how a handler ends: the executor and the last response it leaves, and
\* the message of the exception it raised, None when it returned
Handled(ex, last, error) == [ex |-> ex, last |-> last, error |-> error]

\* self.session.request of a session that is None
NoSessionError == "'NoneType' object has no attribute 'request'"

\* execute_api, api_executor.py 122-237: the definition is looked up, the
\* kwargs are stored, the request goes through self.session; the reporter
\* logs the call whether it was answered or raised
RunExecuteApi(ex, last, api_name, kwargs, answer) ==
    IF api_name \notin Catalogue
    THEN Handled(ex, last, "API not found in configuration")
    ELSE LET stored == StoredAll(ex, kwargs)
             logged == [stored EXCEPT !.test_results = @ + 1]
         IN IF stored.session = "None"
            THEN Handled(logged, last, NoSessionError)
            ELSE Handled(logged, ResponseOf(answer), None)

\* execute_file_upload, api_executor.py 239-352
RunExecuteFileUpload(ex, last, api_name, file_path, kwargs, answer) ==
    IF file_path \notin ExistingFiles
    THEN Handled(ex, last, "File not found")
    ELSE RunExecuteApi(ex, last, api_name, kwargs, answer)

\* _handle_call_api, step_executor.py 2708-2728, and _handle_call_api_with_data,
\* 2730-2764
HandleCallApi(ex, last, api_name, api_params, answer) ==
    IF ~ex.built
    THEN Handled(ex, last, "API executor not initialized")
    ELSE RunExecuteApi(ex, last, api_name, api_params, answer)

\* _handle_authenticate, step_executor.py 2766-2790
HandleAuthenticate(ex, last, username, password, answer) ==
    IF ~ex.built
    THEN Handled(ex, last, "API executor not initialized")
    ELSE LET run == RunExecuteApi(Stored(Stored(ex, "username", username),
                                         "password", password),
                                  last, "login", <<>>, answer)
         IN IF run.error = None /\ run.last.status # 200
            THEN Handled(run.ex, run.last, "Authentication failed")
            ELSE run

\* _handle_upload_file, step_executor.py 3040-3075
HandleUploadFile(ex, last, file_path, api_params, answer) ==
    IF ~ex.built
    THEN Handled(ex, last, "API executor not initialized")
    ELSE RunExecuteFileUpload(ex, last, "upload", file_path, api_params, answer)

\* _handle_store_api_field, step_executor.py 2951-2976
HandleStoreApiField(ex, last, field_path, variable_name) ==
    IF ~last.recorded
    THEN Handled(ex, last, "No API response to store from")
    ELSE IF last.body.type # "dict"
    THEN Handled(ex, last, "Response body is not JSON")
    ELSE IF field_path # "id"
    THEN Handled(ex, last, "Field not found in response")
    ELSE Handled(IF ex.built THEN Stored(ex, variable_name, last.body.id) ELSE ex,
                 last, None)

\* _handle_store_api_response, step_executor.py 2978-2991
HandleStoreApiResponse(ex, last, variable_name) ==
    IF ~last.recorded
    THEN Handled(ex, last, "No API response to store")
    ELSE Handled(IF ex.built THEN Stored(ex, variable_name, BodyValue(last.body))
                             ELSE ex,
                 last, None)

\* _handle_use_stored_value, step_executor.py 2993-3012
HandleUseStoredValue(ex, last, stored_name, param_name) ==
    IF ~ex.built
    THEN Handled(ex, last, "API executor not initialized")
    ELSE IF stored_name \notin DOMAIN ex.context
    THEN Handled(ex, last, "No stored value found")
    ELSE Handled(Stored(ex, param_name, ex.context[stored_name]), last, None)

\* execute_step, step_executor.py 149-185, around a handler that ended as
\* `handled`: the step is kept with what the executor held before and after
ExecuteApiStep(action, params, answer, handled) ==
    /\ ~scenario_returned
    /\ Len(api_steps) < MaxApiSteps
    /\ api_executor' = handled.ex
    /\ last_api_response' = handled.last
    /\ api_steps' = Append(api_steps,
                           [action |-> action, params |-> params, answer |-> answer,
                            status |-> IF handled.error = None THEN "passed"
                                                               ELSE "failed",
                            error |-> handled.error,
                            response_before |-> last_api_response,
                            context_before |-> api_executor.context,
                            context_after |-> handled.ex.context])
    /\ UNCHANGED <<scenario_returned, notApiStepVars>>

CallApiStep(api_name, answer) ==
    ExecuteApiStep("call_api", <<api_name>>, answer,
                   HandleCallApi(api_executor, last_api_response, api_name, <<>>, answer))

CallApiWithDataStep(api_name, api_params, answer) ==
    ExecuteApiStep("call_api_with_data", <<api_name, api_params>>, answer,
                   HandleCallApi(api_executor, last_api_response, api_name, api_params,
                                 answer))

AuthenticateStep(credentials, answer) ==
    ExecuteApiStep("authenticate", credentials, answer,
                   HandleAuthenticate(api_executor, last_api_response, credentials[1],
                                      credentials[2], answer))

UploadFileStep(file_path, answer) ==
    ExecuteApiStep("upload_file", <<file_path>>, answer,
                   HandleUploadFile(api_executor, last_api_response, file_path, <<>>,
                                    answer))

StoreApiFieldStep(field_path, variable_name) ==
    ExecuteApiStep("store_api_field", <<field_path, variable_name>>, NoAnswer,
                   HandleStoreApiField(api_executor, last_api_response, field_path,
                                       variable_name))

StoreApiResponseStep(variable_name) ==
    ExecuteApiStep("store_api_response", <<variable_name>>, NoAnswer,
                   HandleStoreApiResponse(api_executor, last_api_response, variable_name))

UseStoredValueStep(stored_name, param_name) ==
    ExecuteApiStep("use_stored_value", <<stored_name, param_name>>, NoAnswer,
                   HandleUseStoredValue(api_executor, last_api_response, stored_name,
                                        param_name))

\* _execute_scenario, test_executor.py 123-134: the finally block takes the
\* screenshot and stops the browser, then the call returns; the
\* StepExecutor, a local of the call, is dropped as it is
ReturnScenario ==
    /\ ~scenario_returned
    /\ scenario_returned' = TRUE
    /\ UNCHANGED <<api_executor, last_api_response, api_steps, notApiStepVars>>

InitApiSteps ==
    /\ NoRun
    /\ NoCacheUse
    /\ NoConfigUse
    /\ NoResolveUse
    /\ NoApiUse
    /\ NoTableUse
    /\ NoParserUse
    /\ NoClassifyUse
    /\ NoFinderUse
    /\ NoStepUse
    /\ api_executor \in {NoApiExecutor, NewApiExecutor}
    /\ last_api_response = NoResponse
    /\ api_steps = <<>>
    /\ scenario_returned = FALSE

NextApiSteps ==
    \/ \E api_name \in CalledApis, answer \in Answers : CallApiStep(api_name, answer)
    \/ \E api_name \in CalledApis, api_params \in ApiParams, answer \in Answers :
          CallApiWithDataStep(api_name, api_params, answer)
    \/ \E credentials \in Credentials, answer \in Answers :
          AuthenticateStep(credentials, answer)
    \/ \E file_path \in UploadFiles, answer \in Answers : UploadFileStep(file_path, answer)
    \/ \E field_path \in JsonPaths, variable_name \in StoreAs :
          StoreApiFieldStep(field_path, variable_name)
    \/ \E variable_name \in StoreAs : StoreApiResponseStep(variable_name)
    \/ \E stored_name \in UseNames, param_name \in StoreAs :
          UseStoredValueStep(stored_name, param_name)
    \/ ReturnScenario

SpecApiSteps == InitApiSteps /\ [][NextApiSteps]_vars

(***************************************************************************)
(* Properties of the API steps (SpecApiSteps).                             *)
(***************************************************************************)
StoreSteps == {"store_api_field", "store_api_response", "use_stored_value"}
RequestSteps == {"call_api", "call_api_with_data", "authenticate", "upload_file"}

\* C21: a store_api_field, store_api_response or use_stored_value step
\* fails unless a response had been recorded before it and the body of that
\* response is a JSON map, and a failed one leaves the context as it was.
C21_StoreStepsNeedJsonResponse ==
    \A k \in DOMAIN api_steps :
        api_steps[k].action \in StoreSteps =>
            /\ ~(/\ api_steps[k].response_before.recorded
                 /\ api_steps[k].response_before.body.type = "dict")
                   => api_steps[k].status = "failed"
            /\ api_steps[k].status = "failed"
                   => api_steps[k].context_after = api_steps[k].context_before

\* a failed store step leaves the context as it was, and store_api_field
\* and store_api_response fail when no response was recorded
FailedStoreStepKeepsContext ==
    \A k \in DOMAIN api_steps :
        api_steps[k].action \in StoreSteps =>
            /\ api_steps[k].status = "failed"
                   => api_steps[k].context_after = api_steps[k].context_before
            /\ (/\ api_steps[k].action # "use_stored_value"
                /\ ~api_steps[k].response_before.recorded)
                   => api_steps[k].status = "failed"

\* C25: when the _execute_scenario call whose StepExecutor built an
\* APIExecutor has returned, cleanup has run: the session is not open and
\* the call log was rendered to a report.
C25_CleanupBeforeScenarioEnds ==
    (scenario_returned /\ api_executor.built) =>
        /\ api_executor.session # "open"
        /\ api_executor.reports > 0

\* C27: a call_api step on an API of the catalogue that answers with
\* status 200 passes and records the answer as the last API response.
C27_SessionReadyBeforeRequest ==
    \A k \in DOMAIN api_steps :
        (/\ api_steps[k].action = "call_api"
         /\ api_steps[k].params[1] \in Catalogue
         /\ api_steps[k].answer.status = 200
         /\ k = Len(api_steps)
         /\ api_executor.built)
            => /\ api_steps[k].status = "passed"
               /\ last_api_response = ResponseOf(api_steps[k].answer)

\* no step of the executor ever records a response
NoResponseIsEverRecorded == ~last_api_response.recorded

(***************************************************************************)
(* TestExecutor.__init__ (src/executor/test_executor.py, lines 17-30), the *)
(* AIElementFinder built for each scenario (line 73) and its find_element  *)
(* (src/core/ai_element_finder.py, lines 21-26, 46-100, 452-456) on the    *)
(* CacheManager of the TestExecutor, named "writer" here.  The cache       *)
(* directory is empty when the TestExecutor is built and the clock stands  *)
(* still, so no entry expires.                                             *)
(***************************************************************************)
MaxFinders == 2                \* AIElementFinder objects, one per scenario
MaxFinds == 3                  \* find_element calls in one behaviour

finderRest == <<execVars, configVars, resolveVars, apiVars, tableVars, parserVars,
                classifyVars, stepVars, apiStepVars>>

\* config_data: without a 'project' key, with a project that has no name,
\* with the names 'A ' and ''
DefaultProject == <<"d", "e", "f", "a", "u", "l", "t">>
NoProjectKey == [project |-> FALSE, named |-> FALSE, name |-> <<>>]
ConfigDatas ==
    {NoProjectKey,
     [project |-> TRUE, named |-> FALSE, name |-> <<>>],
     [project |-> TRUE, named |-> TRUE, name |-> <<"A", " ">>],
     [project |-> TRUE, named |-> TRUE, name |-> <<>>]}

\* config_data['project'].get('name', 'default')
NameIn(config_data) == IF config_data.named THEN config_data.name ELSE DefaultProject

NotBuilt == [built |-> FALSE, use_cache |-> FALSE, config |-> NoProjectKey]

\* the element_info find_element returns and caches
ElementInfo == [position |-> "list"]
\* where _pattern_match and _ai_detect may locate the element
Located == {"main frame", "iframe", "model", None}

\* test_executor.py 27-30: CacheManager() if use_cache, and set_project
\* when config_data has a 'project' key
ConstructTestExecutor(use_cache, config_data) ==
    /\ ~test_executor.built
    /\ test_executor' = [built |-> TRUE, use_cache |-> use_cache, config |-> config_data]
    /\ IF use_cache
       THEN LET project_name == IF config_data.project
                                THEN Normalise(NameIn(config_data)) ELSE NoProject
                loaded == LoadCache(project_name, EmptyDict, files, now)
            IN /\ cm' = ("writer" :> [project_name |-> project_name,
                                      cache |-> loaded.cache])
               /\ files' = loaded.files
       ELSE UNCHANGED <<cm, files>>
    /\ UNCHANGED <<now, ttl, ncalls, saved, lastOp, finders, find_calls, finderRest>>

\* test_executor.py 73 and ai_element_finder.py 21-26: a new finder holds
\* the TestExecutor's cache_manager and an empty element_cache
NewFinder ==
    /\ test_executor.built
    /\ Len(finders) < MaxFinders
    /\ finders' = Append(finders, [element_cache |-> {}])
    /\ UNCHANGED <<test_executor, find_calls, cacheVars, finderRest>>

\* find_element, ai_element_finder.py 46-100, with _cache_element, 452-456,
\* and CacheManager.save_cache; `still`: the cached selector still matches
\* on the page
FindElement(f, key, still, located) ==
    LET has_manager == test_executor.use_cache
        from_cache == has_manager /\ key \in finders[f].element_cache /\ still
        caches == ~from_cache /\ located # None /\ has_manager
        entry == [value |-> ElementInfo, timestamp |-> now]
        cache == [k \in DOMAIN cm["writer"].cache \cup {key} |->
                     IF k = key THEN entry ELSE cm["writer"].cache[k]]
    IN /\ Len(find_calls) < MaxFinds
       /\ find_calls' =
              Append(find_calls,
                     [finder |-> f, key |-> key, still |-> still,
                      in_manager |-> /\ has_manager
                                     /\ GetValue(cm["writer"].cache, key, now).found,
                      pattern_match |-> ~from_cache,
                      returned |-> IF from_cache THEN "element_cache" ELSE located])
       /\ IF caches
          THEN /\ finders' = [finders EXCEPT ![f].element_cache = @ \cup {key}]
               /\ cm' = [cm EXCEPT !["writer"].cache = cache]
               /\ files' = SaveCacheFile(cm["writer"].project_name, cache, files)
          ELSE UNCHANGED <<finders, cm, files>>
       /\ UNCHANGED <<test_executor, now, ttl, ncalls, saved, lastOp, finderRest>>

InitFinder ==
    /\ NoRun
    /\ NoConfigUse
    /\ NoResolveUse
    /\ NoApiUse
    /\ NoTableUse
    /\ NoParserUse
    /\ NoClassifyUse
    /\ NoStepUse
    /\ NoApiStepUse
    /\ now = 0
    /\ ttl \in TTLs
    /\ cm = <<>>
    /\ files = EmptyDict
    /\ ncalls = 0
    /\ saved = FALSE
    /\ lastOp = Op("init", "", "", Absent)
    /\ test_executor = NotBuilt
    /\ finders = <<>>
    /\ find_calls = <<>>

NextFinder ==
    \/ \E use_cache \in BOOLEAN, config_data \in ConfigDatas :
          ConstructTestExecutor(use_cache, config_data)
    \/ NewFinder
    \/ \E f \in DOMAIN finders, key \in Keys, still \in BOOLEAN, located \in Located :
          FindElement(f, key, still, located)

SpecFinder == InitFinder /\ [][NextFinder]_vars

(***************************************************************************)
(* Properties of the TestExecutor's cache (SpecFinder).                    *)
(***************************************************************************)
\* the cache of the manager is written to the file of its project
Persisted ==
    LET manager == cm["writer"]
    IN DOMAIN manager.cache # {} =>
           /\ manager.project_name \in DOMAIN files
           /\ DOMAIN files[manager.project_name].doc = DOMAIN manager.cache

\* C22: with caching enabled, the CacheManager of a built TestExecutor is
\* bound to config.project.name when the configuration has one and to
\* 'default' otherwise, and what save_cache has stored is in the cache file
\* of that project.
C22_CacheManagerBoundToProject ==
    (test_executor.built /\ test_executor.use_cache) =>
        /\ cm["writer"].project_name = Normalise(NameIn(test_executor.config))
        /\ Persisted

\* with a 'project' key whose name is not empty, the manager is bound and
\* its cache is persisted
BoundWhenProjectKeyPresent ==
    (/\ test_executor.built
     /\ test_executor.use_cache
     /\ test_executor.config.project
     /\ NameIn(test_executor.config) # <<>>)
        => /\ cm["writer"].project_name = Normalise(NameIn(test_executor.config))
           /\ Persisted

\* C30: a find_element call for a key that the CacheManager holds, not
\* expired, and whose selector still matches returns the cached entry from
\* its cache check and does not run pattern matching, also when the entry
\* was written through another AIElementFinder.
C30_LaterFinderReusesCachedEntry ==
    \A c \in DOMAIN find_calls :
        (find_calls[c].in_manager /\ find_calls[c].still)
            => /\ find_calls[c].returned = "element_cache"
               /\ ~find_calls[c].pattern_match

\* the finder that wrote an entry reuses it, and only that finder does
OnlyTheWritingFinderReuses ==
    \A c \in DOMAIN find_calls :
        find_calls[c].returned = "element_cache" <=>
            /\ find_calls[c].in_manager
            /\ find_calls[c].still
            /\ \E b \in 1..(c - 1) :
                   /\ find_calls[b].finder = find_calls[c].finder
                   /\ find_calls[b].key = find_calls[c].key
                   /\ find_calls[b].returned \notin {"element_cache", None}

====
